---- MODULE Spec2Model ----
(***************************************************************************)
(* Model of the macro-liquidity reporting job (src/main.py and the         *)
(* monitors it calls).  One run of run_liquidity_dashboard is a sequence   *)
(* of steps; `pc' is the position inside the run.                          *)
(*                                                                         *)
(* Units.  Percentages (liquidity YoY, yield spread) are integers in       *)
(* hundredths of a percent: 3.00% is 300, the 0.1 threshold is 10, the     *)
(* 0.02 threshold is 2.  Repo values are in tenths: 15.0 is 150.           *)
(* Optional values.  Python's None is the empty tuple, a present value v   *)
(* is the one-element tuple <<v>>.                                         *)
(* Dates.  A well-formed "YYYY-MM-DD" string for day number d is <<d>>,    *)
(* a missing date is None and a string strptime rejects is BadDateStr.     *)
(***************************************************************************)
EXTENDS Integers, Sequences, FiniteSets, TLC

\* ------------------------------------------------------------------------
\* Bounds of the model
\* ------------------------------------------------------------------------
\* The cap of save_history.  The code's cap is 400 (src/main.py:67,75); the
\* model scales it down so that a history can exceed it.
HistoryCap == 2

\* Last UTC day on which a run may start: two days more than the cap, so
\* that the cap is exceeded and a trimmed history is extended again.
MaxDay == HistoryCap + 2

\* ------------------------------------------------------------------------
\* Optional values and date strings
\* ------------------------------------------------------------------------
None == <<>>

Some(v) == <<v>>

Val(x) == x[1]

BadDateStr == <<0, 0>>

\* datetime.utcnow().strftime("%Y-%m-%d")
strftime(day) == <<day>>

DateParses(s) == Len(s) = 1

\* datetime.strptime(s, "%Y-%m-%d"), defined where DateParses(s)
strptime(s) == s[1]

Range(s) == {s[i] : i \in 1..Len(s)}

\* ------------------------------------------------------------------------
\* Derived metrics
\* ------------------------------------------------------------------------
\* yoy with a reference of 0 reported as no change
YoY_ZeroAsFlat(latest_val, prev_val) ==
    IF prev_val # 0
      THEN Some(((latest_val - prev_val) * 10000) \div prev_val)
      ELSE Some(0)

\* yoy = (latest - prev) / prev * 100 or None when prev is 0, in hundredths
\* of a percent (exact for the inputs the model draws).
YoY(latest_val, prev_val) ==
    IF prev_val # 0
      THEN Some(((latest_val - prev_val) * 10000) \div prev_val)
      ELSE None

\* assess_repo_stress with the band 15..30 given the level the bands skip
assess_repo_stress_WithLevel2(value) ==
    IF value < 50 THEN 0
    ELSE IF value < 150 THEN 1
    ELSE IF value < 300 THEN 2
    ELSE IF value < 500 THEN 4
    ELSE 5

\* level of assess_repo_stress, value in tenths
assess_repo_stress(value) ==
    IF value < 50 THEN 0
    ELSE IF value < 150 THEN 1
    ELSE IF value < 300 THEN 3
    ELSE IF value < 500 THEN 4
    ELSE 5

\* ------------------------------------------------------------------------
\* Classifiers
\* ------------------------------------------------------------------------
StageLabel(stage) ==
    CASE stage = "Capitulation Bear" -> "capitulation bear market"
      [] stage = "Early/Mid Bear"    -> "bear market"
      [] stage = "Transition"        -> "transition (bottoming)"
      [] stage = "Stress Transition" -> "stress transition"
      [] stage = "Early Bull"        -> "early bull market"
      [] stage = "Late Transition"   -> "eve of bull market"
      [] stage = "Mid Bull"          -> "mid bull market"
      [] stage = "Volatile Bull"     -> "volatile bull market"
      [] stage = "Late Bull"         -> "late bull market"
      [] OTHER                       -> "cycle unknown"

\* the decision table with the band edges on the wrong side
CycleStage_StrictBands(nl_yoy, repo_level, yc_spread) ==
    IF nl_yoy = None \/ repo_level = None \/ yc_spread = None THEN "Unknown"
    ELSE IF Val(nl_yoy) < -500
      THEN (IF Val(repo_level) >= 3 THEN "Capitulation Bear" ELSE "Early/Mid Bear")
    ELSE IF Val(nl_yoy) < 0
      THEN (IF Val(repo_level) <= 2 THEN "Transition" ELSE "Stress Transition")
    ELSE IF Val(nl_yoy) < 500
      THEN (IF Val(yc_spread) < 0 THEN "Early Bull" ELSE "Late Transition")
    ELSE IF Val(nl_yoy) < 1500
      THEN (IF Val(repo_level) <= 2 THEN "Mid Bull" ELSE "Volatile Bull")
    ELSE "Late Bull"

CycleStage(nl_yoy, repo_level, yc_spread) ==
    IF nl_yoy = None \/ repo_level = None \/ yc_spread = None THEN "Unknown"
    ELSE IF Val(nl_yoy) <= -500
      THEN (IF Val(repo_level) >= 3 THEN "Capitulation Bear" ELSE "Early/Mid Bear")
    ELSE IF -500 < Val(nl_yoy) /\ Val(nl_yoy) <= 0
      THEN (IF Val(repo_level) <= 2 THEN "Transition" ELSE "Stress Transition")
    ELSE IF 0 < Val(nl_yoy) /\ Val(nl_yoy) <= 500
      THEN (IF Val(yc_spread) < 0 THEN "Early Bull" ELSE "Late Transition")
    ELSE IF 500 < Val(nl_yoy) /\ Val(nl_yoy) <= 1500
      THEN (IF Val(repo_level) <= 2 THEN "Mid Bull" ELSE "Volatile Bull")
    ELSE IF Val(nl_yoy) > 1500 THEN "Late Bull"
    ELSE "Unknown"

\* the "stage" and "label" entries of the dict classify_crypto_cycle returns
classify_crypto_cycle(nl_yoy, repo_level, yc_spread) ==
    LET stage == CycleStage(nl_yoy, repo_level, yc_spread)
    IN  [stage |-> stage, label |-> StageLabel(stage)]

\* the flag count with the yield-spread test made inclusive
escape_flags_Inclusive(nl_yoy, repo_level, yc_spread) ==
      (IF Val(nl_yoy) > 1000 THEN 1 ELSE 0)
    + (IF Val(repo_level) >= 3 THEN 1 ELSE 0)
    + (IF yc_spread # None /\ Val(yc_spread) >= -10 THEN 1 ELSE 0)
    + (IF Val(nl_yoy) < 200 THEN 1 ELSE 0)

escape_flags(nl_yoy, repo_level, yc_spread) ==
      (IF Val(nl_yoy) > 1000 THEN 1 ELSE 0)
    + (IF Val(repo_level) >= 3 THEN 1 ELSE 0)
    + (IF yc_spread # None /\ Val(yc_spread) > -10 THEN 1 ELSE 0)
    + (IF Val(nl_yoy) < 200 THEN 1 ELSE 0)

escape_top_signal(nl_yoy, repo_level, yc_spread) ==
    IF nl_yoy = None \/ repo_level = None \/ yc_spread = None
      THEN "insufficient signal"
    ELSE IF escape_flags(nl_yoy, repo_level, yc_spread) >= 2
      THEN "activate exit strategy"
    ELSE IF escape_flags(nl_yoy, repo_level, yc_spread) = 1
      THEN "watch"
    ELSE "no exit warranted"

risk_nl(v) ==
    IF v <= -1000 THEN 80
    ELSE IF v <= -500 THEN 65
    ELSE IF v <= 0 THEN 55
    ELSE IF v <= 500 THEN 40
    ELSE IF v <= 1500 THEN 30
    ELSE 60

\* the repo sub-score with a steeper top band
risk_repo_Steep(l) ==
    IF l <= 0 THEN 20
    ELSE IF l = 1 THEN 30
    ELSE IF l = 2 THEN 45
    ELSE IF l = 3 THEN 65
    ELSE 95

risk_repo(l) ==
    IF l <= 0 THEN 20
    ELSE IF l = 1 THEN 30
    ELSE IF l = 2 THEN 45
    ELSE IF l = 3 THEN 65
    ELSE 80

risk_yc(s) ==
    IF s < -50 THEN 50
    ELSE IF s < 0 THEN 55
    ELSE IF s < 50 THEN 65
    ELSE 75

Max2(a, b) == IF a >= b THEN a ELSE b

Min2(a, b) == IF a <= b THEN a ELSE b

\* int(round(x / 3)) for a non-negative integer x (x / 3 is never a tie)
RoundThird(x) == (2 * x + 3) \div 6

\* the score with a missing yield spread scored as the middle band
compute_market_risk_score_Partial(nl_yoy, repo_level, yc_spread) ==
    IF nl_yoy = None \/ repo_level = None THEN None
    ELSE Some(Max2(0, Min2(100,
           RoundThird(risk_nl(Val(nl_yoy)) + risk_repo(Val(repo_level))
                      + (IF yc_spread = None THEN 65
                         ELSE risk_yc(Val(yc_spread)))))))

compute_market_risk_score(nl_yoy, repo_level, yc_spread) ==
    IF nl_yoy = None \/ repo_level = None \/ yc_spread = None THEN None
    ELSE Some(Max2(0, Min2(100,
           RoundThird(risk_nl(Val(nl_yoy)) + risk_repo(Val(repo_level))
                      + risk_yc(Val(yc_spread))))))

\* ------------------------------------------------------------------------
\* History file helpers
\* ------------------------------------------------------------------------
\* insertion of x into a list sorted by key, after the elements with an equal
\* key: sorted() is stable
RECURSIVE InsertByKey(_, _, _)
InsertByKey(x, kx, sortedPairs) ==
    IF sortedPairs = <<>> THEN <<[k |-> kx, r |-> x]>>
    ELSE IF kx < Head(sortedPairs).k
      THEN <<[k |-> kx, r |-> x]>> \o sortedPairs
      ELSE <<Head(sortedPairs)>> \o InsertByKey(x, kx, Tail(sortedPairs))

\* _parse_date of save_history: the day of the record's date, 1900-01-01
\* (day 0, before every day of the model) when the date is missing or does
\* not parse
EpochDay == 0

_parse_date(x) == IF DateParses(x.date) THEN strptime(x.date) ELSE EpochDay

RECURSIVE SortPairs(_)
SortPairs(history) ==
    IF history = <<>> THEN <<>>
    ELSE LET n == Len(history)
         IN  InsertByKey(history[n], _parse_date(history[n]),
                         SortPairs(SubSeq(history, 1, n - 1)))

\* sorted(history, key=_parse_date)
SortedByDate(history) ==
    LET p == SortPairs(history) IN [i \in 1..Len(p) |-> p[i].r]

\* save_history with the slice taken at the wrong end of the sorted list
save_history_KeepsOldest(history) ==
    IF Len(history) > HistoryCap
      THEN SubSeq(SortedByDate(history), 1, HistoryCap)
      ELSE history

\* what save_history(history) writes to the history file
save_history(history) ==
    IF Len(history) > HistoryCap
      THEN LET s == SortedByDate(history)
           IN  SubSeq(s, Len(s) - HistoryCap + 1, Len(s))
      ELSE history

AbsInt(x) == IF x < 0 THEN 0 - x ELSE x

\* the loop of find_reference_entry over history[1..n]: the best record so
\* far and its distance, best = None before any record with a parseable date
RECURSIVE RefScan(_, _, _)
RefScan(history, target, n) ==
    IF n = 0 THEN [best |-> None, best_diff |-> 0]
    ELSE LET acc == RefScan(history, target, n - 1)
             h == history[n]
         IN  IF h.date = None \/ ~DateParses(h.date) THEN acc
             ELSE LET diff == AbsInt(strptime(h.date) - target)
                  IN  IF acc.best = None \/ diff < acc.best_diff
                        THEN [best |-> Some(h), best_diff |-> diff]
                        ELSE acc

\* find_reference_entry that accepts only records within 10 days of the
\* target
find_reference_entry_Within(history, today_date, lookback_days) ==
    LET P == { i \in 1..Len(history) :
                 /\ history[i].date # None
                 /\ DateParses(history[i].date)
                 /\ AbsInt(strptime(history[i].date)
                           - (today_date - lookback_days)) <= 10 }
        diff(i) == AbsInt(strptime(history[i].date) - (today_date - lookback_days))
    IN  IF P = {} THEN None
        ELSE Some(history[CHOOSE i \in P :
                            \A j \in P : \/ diff(i) < diff(j)
                                          \/ (diff(i) = diff(j) /\ i <= j)])

\* find_reference_entry with the last of several equally close records
find_reference_entry_LastClosest(history, today_date, lookback_days) ==
    LET P == { i \in 1..Len(history) :
                 history[i].date # None /\ DateParses(history[i].date) }
        diff(i) == AbsInt(strptime(history[i].date) - (today_date - lookback_days))
    IN  IF P = {} THEN None
        ELSE Some(history[CHOOSE i \in P :
                            \A j \in P : \/ diff(i) < diff(j)
                                          \/ (diff(i) = diff(j) /\ j <= i)])

\* find_reference_entry: None or Some(record)
find_reference_entry(history, today_date, lookback_days) ==
    IF history = <<>> THEN None
    ELSE RefScan(history, today_date - lookback_days, Len(history)).best

\* _STAGE_ORDER
STAGE_ORDER ==
    << "Capitulation Bear", "Early/Mid Bear", "Stress Transition",
       "Transition", "Late Transition", "Early Bull", "Mid Bull",
       "Volatile Bull", "Late Bull" >>

\* get_stage_rank: the 0-based index in _STAGE_ORDER, None on ValueError
get_stage_rank(stage) ==
    IF \E i \in 1..Len(STAGE_ORDER) : STAGE_ORDER[i] = stage
      THEN Some((CHOOSE i \in 1..Len(STAGE_ORDER) : STAGE_ORDER[i] = stage) - 1)
      ELSE None

\* ------------------------------------------------------------------------
\* Trend sections.  A text line is a tuple of strings: its kind, then the
\* parts that vary.
\* ------------------------------------------------------------------------
Num(x) == IF x = None THEN "None" ELSE ToString(Val(x))

\* a - b of two optional numbers raises TypeError when one of them is None
SubRaises(a, b) == a = None \/ b = None

\* the liquidity direction with the thresholds themselves counted as a move
NlTrendText_Inclusive(d_nl) ==
    IF d_nl >= 10 THEN "improved" ELSE IF d_nl <= -10 THEN "worsened" ELSE "flat"

NlTrendText(d_nl) ==
    IF d_nl > 10 THEN "improved" ELSE IF d_nl < -10 THEN "worsened" ELSE "flat"

RepoTrendText(d_repo) ==
    IF d_repo < 0 THEN "down" ELSE IF d_repo > 0 THEN "up" ELSE "flat"

YcTrendText(d_yc) ==
    IF d_yc > 2 THEN "narrowing" ELSE IF d_yc < -2 THEN "widening" ELSE "flat"

\* the 7-day block: raises TypeError at the first subtraction with a None
\* operand
Trend7Raises(today_snapshot, ref_7) ==
    /\ ref_7 # None
    /\ \/ SubRaises(today_snapshot.nl_yoy, Val(ref_7).nl_yoy)
       \/ SubRaises(today_snapshot.repo_level, Val(ref_7).repo_level)
       \/ SubRaises(today_snapshot.yc_spread, Val(ref_7).yc_spread)

Trend7Lines(today_snapshot, ref_7) ==
    IF ref_7 = None THEN << <<"trend7", "insufficient history">> >>
    ELSE << <<"trend7">>,
            <<"trend7 nl_yoy",
              NlTrendText(Val(today_snapshot.nl_yoy) - Val(Val(ref_7).nl_yoy))>>,
            <<"trend7 repo",
              RepoTrendText(Val(today_snapshot.repo_level) - Val(Val(ref_7).repo_level))>>,
            <<"trend7 yield curve",
              YcTrendText(Val(today_snapshot.yc_spread) - Val(Val(ref_7).yc_spread))>> >>

Trend30Lines(today_snapshot, ref_30) ==
    IF ref_30 = None THEN << <<"trend30", "insufficient history">> >>
    ELSE << <<"trend30">> >>
         \o (IF Val(ref_30).nl_yoy # None /\ today_snapshot.nl_yoy # None
               THEN << <<"trend30 nl_yoy", Num(Val(ref_30).nl_yoy),
                         Num(today_snapshot.nl_yoy)>> >>
               ELSE <<>>)
         \o (IF Val(ref_30).repo_level # None /\ today_snapshot.repo_level # None
               THEN << <<"trend30 repo", Num(Val(ref_30).repo_level),
                         Num(today_snapshot.repo_level)>> >>
               ELSE <<>>)
         \o (IF Val(ref_30).yc_spread # None /\ today_snapshot.yc_spread # None
               THEN << <<"trend30 yield curve", Num(Val(ref_30).yc_spread),
                         Num(today_snapshot.yc_spread)>> >>
               ELSE <<>>)

\* the arrow with an unranked stage placed below every ranked one
CycleArrow_NoNeutral(prev_stage, curr_stage) ==
    LET r_prev == IF get_stage_rank(prev_stage) = None THEN -1
                  ELSE Val(get_stage_rank(prev_stage))
        r_curr == IF get_stage_rank(curr_stage) = None THEN -1
                  ELSE Val(get_stage_rank(curr_stage))
    IN  IF r_curr > r_prev THEN "up"
        ELSE IF r_curr < r_prev THEN "down"
        ELSE "level"

CycleArrow(prev_stage, curr_stage) ==
    LET r_prev == get_stage_rank(prev_stage)
        r_curr == get_stage_rank(curr_stage)
    IN  IF r_prev # None /\ r_curr # None
          THEN (IF Val(r_curr) > Val(r_prev) THEN "up"
                ELSE IF Val(r_curr) < Val(r_prev) THEN "down"
                ELSE "level")
          ELSE "neutral"

CycleShiftLine(today_snapshot, ref_7, ref_30) ==
    LET prev == IF ref_30 # None THEN ref_30 ELSE ref_7
    IN  IF prev # None /\ today_snapshot.label # ""
          THEN <<"cycle shift", Val(prev).label,
                 CycleArrow(Val(prev).stage, today_snapshot.stage),
                 today_snapshot.label>>
          ELSE <<"cycle shift", "insufficient history">>

\* build_trend_sections with the run date written into the 7-day header
build_trend_sections_Dated(today_snapshot, history) ==
    LET today_date == strptime(today_snapshot.date)
        ref_7 == find_reference_entry(history, today_date, 7)
        ref_30 == find_reference_entry(history, today_date, 30)
    IN  IF Trend7Raises(today_snapshot, ref_7)
          THEN [raised |-> TRUE, lines_7 |-> <<>>, lines_30 |-> <<>>,
                cycle_shift_line |-> <<>>]
          ELSE [raised |-> FALSE,
                lines_7 |-> << <<"trend7", ToString(today_date)>> >>
                            \o Trend7Lines(today_snapshot, ref_7),
                lines_30 |-> Trend30Lines(today_snapshot, ref_30),
                cycle_shift_line |-> CycleShiftLine(today_snapshot, ref_7, ref_30)]

\* build_trend_sections: raised = TRUE stands for the TypeError of the 7-day
\* block, otherwise the three results
build_trend_sections(today_snapshot, history) ==
    LET today_date == strptime(today_snapshot.date)
        ref_7 == find_reference_entry(history, today_date, 7)
        ref_30 == find_reference_entry(history, today_date, 30)
    IN  IF Trend7Raises(today_snapshot, ref_7)
          THEN [raised |-> TRUE, lines_7 |-> <<>>, lines_30 |-> <<>>,
                cycle_shift_line |-> <<>>]
          ELSE [raised |-> FALSE,
                lines_7 |-> Trend7Lines(today_snapshot, ref_7),
                lines_30 |-> Trend30Lines(today_snapshot, ref_30),
                cycle_shift_line |-> CycleShiftLine(today_snapshot, ref_7, ref_30)]

\* ------------------------------------------------------------------------
\* Report lines
\* ------------------------------------------------------------------------
build_dynamic_summary(nl, repo, yc) ==
    << "summary",
       IF nl = None THEN "liquidity unclear"
       ELSE IF Val(nl) > 500 THEN "liquidity loose"
       ELSE IF Val(nl) > -500 THEN "liquidity neutral"
       ELSE "liquidity tight",
       IF repo = None THEN "stress unclear"
       ELSE IF Val(repo) <= 1 THEN "stress low"
       ELSE IF Val(repo) = 2 THEN "stress slightly up"
       ELSE IF Val(repo) = 3 THEN "stress rising"
       ELSE "stress high",
       IF yc = None THEN "economy unclear"
       ELSE IF Val(yc) < -50 THEN "deep inversion"
       ELSE IF Val(yc) < 0 THEN "inversion"
       ELSE IF Val(yc) < 50 THEN "recovering"
       ELSE "strong" >>

build_crypto_cycle_line(info) == <<"cycle", info.label>>

build_position_advice_line(info) == <<"position", info.stage>>

build_escape_top_line(nl, repo, yc) == <<"escape", escape_top_signal(nl, repo, yc)>>

RiskBand(score) ==
    IF score < 35 THEN "low risk"
    ELSE IF score < 60 THEN "neutral risk"
    ELSE IF score < 80 THEN "elevated risk"
    ELSE "extreme risk"

build_risk_score_line(nl, repo, yc) ==
    LET score == compute_market_risk_score(nl, repo, yc)
    IN  IF score = None THEN <<"risk", "N/A">>
        ELSE <<"risk", Num(score), RiskBand(Val(score))>>

\* _cycle_arrow of crypto_integration
cycle_arrow(stage) ==
    IF stage \in {"Capitulation Bear", "Early/Mid Bear"} THEN "down"
    ELSE IF stage \in {"Stress Transition", "Transition", "Late Transition",
                       "Early Bull", "Mid Bull", "Volatile Bull", "Late Bull"}
      THEN "up"
    ELSE "level"

\* build_btc_eth_section: the lines that depend on the macro context, then
\* the fixed ones
build_btc_eth_section(stage, label, risk_score, escape_comment) ==
    << <<"btc_eth header">>,
       <<"btc_eth cycle", label, cycle_arrow(stage)>>,
       IF risk_score # None
         THEN <<"btc_eth risk", Num(risk_score), RiskBand(Val(risk_score))>>
         ELSE <<"btc_eth risk", "N/A">>,
       <<"escape", escape_comment>>,
       <<"">>,
       <<"btc_eth exposure", stage, Num(risk_score)>>,
       <<"">>,
       <<"btc_eth weights", stage, Num(risk_score)>>,
       <<"">>,
       <<"btc_eth note">> >>

\* the rule-based alerts of the full report
\* the warnings with the QT one raised from level 3 on
Warnings_QTAtThree(nl, repo) ==
       (IF repo # None /\ Val(repo) >= 3 /\ nl # None /\ Val(nl) > 0
          THEN << <<"warning", "policy pivot">> >> ELSE <<>>)
    \o (IF repo # None /\ Val(repo) >= 3
          THEN << <<"warning", "QT near end">> >> ELSE <<>>)

\* the rule-based warnings of the full report
Warnings(nl, repo) ==
       (IF repo # None /\ Val(repo) >= 3 /\ nl # None /\ Val(nl) > 0
          THEN << <<"warning", "policy pivot">> >> ELSE <<>>)
    \o (IF repo # None /\ Val(repo) >= 4
          THEN << <<"warning", "QT near end">> >> ELSE <<>>)

\* the head of the full report: headline lines, BTC/ETH section, trend
\* blocks, alerts, then the net-liquidity and repo detail blocks
ReportHead(nl, repo, yc, cycle_info, tr) ==
       << build_dynamic_summary(nl, repo, yc),
          build_crypto_cycle_line(cycle_info),
          build_escape_top_line(nl, repo, yc),
          build_risk_score_line(nl, repo, yc),
          build_position_advice_line(cycle_info),
          <<"">> >>
    \o build_btc_eth_section(cycle_info.stage, cycle_info.label,
                             compute_market_risk_score(nl, repo, yc),
                             escape_top_signal(nl, repo, yc))
    \o << <<"">> >>
    \o tr.lines_7 \o << <<"">> >>
    \o tr.lines_30 \o << <<"">> >>
    \o << tr.cycle_shift_line, <<"">> >>
    \o (IF Warnings(nl, repo) # <<>>
          THEN << <<"alert header">> >> \o Warnings(nl, repo) \o << <<"">> >>
          ELSE <<>>)
    \o << <<"dashboard header">>, <<"">>,
          <<"net liquidity", Num(nl)>>, <<"">>,
          <<"repo", Num(repo)>>, <<"">> >>

build_brief_message(summary_line, cycle_line, escape_line, risk_line, position_line, trend_7_lines, trend_30_lines, cycle_shift_line) ==
       << <<"brief header">>, <<"">>, summary_line, cycle_line, escape_line,
          risk_line, position_line, <<"">> >>
    \o trend_7_lines \o << <<"">> >>
    \o trend_30_lines \o << <<"">> >>
    \o << cycle_shift_line >>

\* ------------------------------------------------------------------------
\* What the outside world can answer
\* ------------------------------------------------------------------------
\* (latest, year-ago) net-liquidity values a fetch may give: YoY None,
\* -3.00% and +3.00%
NetLiqValues == { <<97, 100>>, <<103, 100>>, <<50, 0>> }

\* latest repo values, in tenths: levels 1 and 3
RepoValues == { 100, 200 }

\* 2Y-10Y spreads, in hundredths of a percent
SpreadValues == { -20, 50 }

\* the except clause with one monitor's error class left out
CaughtErrors_WithoutFedBS ==
    { "RepoDataError", "TGADataError", "RRPDataError", "NetLiqDataError",
      "TelegramError" }

\* the errors the except clause of run_liquidity_dashboard names
CaughtErrors ==
    { "RepoDataError", "TGADataError", "RRPDataError", "FedBSDataError",
      "NetLiqDataError", "TelegramError" }

\* outcomes of get_us_5y_cds: a value, CDSDataError (HTTP status not 200,
\* element not found), or an exception of another class (requests.get
\* raising, float() rejecting the element's text)
CDSOutcomes ==
    { "ok", "CDSDataError", "RequestException", "ValueError" }

\* ------------------------------------------------------------------------
\* State
\* ------------------------------------------------------------------------
VARIABLES
    historyFile,     \* content of liquidity_history.json: a list of records
    clock,           \* current UTC day
    pc,              \* position in run_liquidity_dashboard
    nl_yoy,          \* locals of the run
    repo_level,
    yc_spread,
    yc_info,
    cycle_info,
    today_snapshot,
    history,
    trend,
    lines,
    chat,            \* what the chat received in this run, in order
    log,             \* lines printed in this run, in order
    result,          \* "none" while running, "returned", "raised"
    exc,             \* the exception that ended the run, "" if none
    fileAtStart,     \* historyFile when the run started
    arg,             \* argument of a function applied on its own
    ret              \* what that function returned or raised

vars ==
    << historyFile, clock, pc, nl_yoy, repo_level, yc_spread, yc_info,
       cycle_info, today_snapshot, history, trend, lines, chat, log, result,
       exc, fileAtStart, arg, ret >>

SEND_BOTH_TEXTS == TRUE

NoTrend ==
    [raised |-> FALSE, lines_7 |-> <<>>, lines_30 |-> <<>>,
     cycle_shift_line |-> <<>>]

NoCycle == [stage |-> "", label |-> ""]

\* today_snapshot before the run builds it
NoSnapshot ==
    [date |-> None, nl_yoy |-> None, repo_level |-> None, yc_spread |-> None,
     stage |-> "", label |-> ""]

Init ==
    /\ historyFile = <<>>
    /\ clock = 1
    /\ pc = "idle"
    /\ nl_yoy = None
    /\ repo_level = None
    /\ yc_spread = None
    /\ yc_info = None
    /\ cycle_info = NoCycle
    /\ today_snapshot = NoSnapshot
    /\ history = <<>>
    /\ trend = NoTrend
    /\ lines = <<>>
    /\ chat = <<>>
    /\ log = <<>>
    /\ result = "none"
    /\ exc = ""
    /\ fileAtStart = <<>>
    /\ arg = None
    /\ ret = None

\* the except clause at the end of run_liquidity_dashboard: an exception of
\* a class it names is logged and the run returns, any other leaves the
\* function
Raise(e) ==
    /\ pc' = "done"
    /\ exc' = e
    /\ IF e \in CaughtErrors
         THEN /\ log' = Append(log, "error")
              /\ result' = "returned"
         ELSE /\ log' = log
              /\ result' = "raised"

\* the scheduler starts a run, on the same day as the last one or on the
\* next; the function's locals are fresh
StartRun ==
    /\ pc \in {"idle", "done"}
    /\ \E d \in {clock, clock + 1} :
         /\ d <= MaxDay
         /\ clock' = d
    /\ pc' = "net_liquidity"
    /\ nl_yoy' = None
    /\ repo_level' = None
    /\ yc_spread' = None
    /\ yc_info' = None
    /\ cycle_info' = NoCycle
    /\ today_snapshot' = NoSnapshot
    /\ history' = <<>>
    /\ trend' = NoTrend
    /\ lines' = <<>>
    /\ chat' = <<>>
    /\ log' = <<>>
    /\ result' = "none"
    /\ exc' = ""
    /\ fileAtStart' = historyFile
    /\ UNCHANGED << historyFile, arg, ret >>

\* 1) get_net_liquidity_status
FetchNetLiquidity ==
    /\ pc = "net_liquidity"
    /\ \/ /\ \E v \in NetLiqValues : nl_yoy' = YoY(v[1], v[2])
          /\ pc' = "repo"
          /\ UNCHANGED << log, result, exc >>
       \/ /\ Raise("NetLiqDataError")
          /\ UNCHANGED nl_yoy
    /\ UNCHANGED << historyFile, clock, repo_level, yc_spread, yc_info,
                    cycle_info, today_snapshot, history, trend, lines, chat,
                    fileAtStart, arg, ret >>

\* 2) get_latest_repo_info and assess_repo_stress
FetchRepo ==
    /\ pc = "repo"
    /\ \/ /\ \E v \in RepoValues : repo_level' = Some(assess_repo_stress(v))
          /\ pc' = "yield_curve"
          /\ UNCHANGED << log, result, exc >>
       \/ /\ Raise("RepoDataError")
          /\ UNCHANGED repo_level
    /\ UNCHANGED << historyFile, clock, nl_yoy, yc_spread, yc_info,
                    cycle_info, today_snapshot, history, trend, lines, chat,
                    fileAtStart, arg, ret >>

\* 3) get_yield_curve, YieldCurveError handled in place; 4) the classifiers;
\* 5) today's snapshot
FetchYieldCurve ==
    /\ pc = "yield_curve"
    /\ \/ \E s \in SpreadValues :
            /\ yc_info' = Some([spread |-> s])
            /\ yc_spread' = Some(s)
       \/ /\ yc_info' = None
          /\ yc_spread' = None
    /\ cycle_info' = classify_crypto_cycle(nl_yoy, repo_level, yc_spread')
    /\ today_snapshot' =
         [date |-> strftime(clock), nl_yoy |-> nl_yoy,
          repo_level |-> repo_level, yc_spread |-> yc_spread',
          stage |-> cycle_info'.stage, label |-> cycle_info'.label]
    /\ pc' = "trend"
    /\ UNCHANGED << historyFile, clock, nl_yoy, repo_level, history, trend,
                    lines, chat, log, result, exc, fileAtStart, arg, ret >>

\* load_history and build_trend_sections, then the head of the full report
\* up to the repo block
BuildTrend ==
    /\ pc = "trend"
    /\ history' = historyFile
    /\ LET tr == build_trend_sections(today_snapshot, historyFile)
       IN  IF tr.raised
             THEN /\ Raise("TypeError")
                  /\ UNCHANGED << trend, lines >>
             ELSE /\ trend' = tr
                  /\ lines' = ReportHead(nl_yoy, repo_level, yc_spread,
                                         cycle_info, tr)
                  /\ pc' = "tga"
                  /\ UNCHANGED << log, result, exc >>
    /\ UNCHANGED << historyFile, clock, nl_yoy, repo_level, yc_spread,
                    yc_info, cycle_info, today_snapshot, chat, fileAtStart, arg, ret >>

\* a required monitor of the detail part: its text block is appended, or its
\* data error ends the run
FetchDetail(at, block, next, error) ==
    /\ pc = at
    /\ \/ /\ lines' = lines \o << <<block>>, <<"">> >>
          /\ pc' = next
          /\ UNCHANGED << log, result, exc >>
       \/ /\ Raise(error)
          /\ UNCHANGED lines
    /\ UNCHANGED << historyFile, clock, nl_yoy, repo_level, yc_spread,
                    yc_info, cycle_info, today_snapshot, history, trend, chat,
                    fileAtStart, arg, ret >>

FetchTGA == FetchDetail("tga", "tga", "rrp", "TGADataError")

FetchRRP == FetchDetail("rrp", "rrp", "fed_bs", "RRPDataError")

FetchFedBS == FetchDetail("fed_bs", "fed balance sheet", "cds", "FedBSDataError")

\* the yield-curve block of the full report, or its placeholder line
YieldCurveBlock(info) ==
    IF info # None
      THEN << <<"yield curve", ToString(Val(info).spread)>>, <<"">> >>
      ELSE << <<"yield curve", "fetch failed">>, <<"">> >>

\* what get_us_5y_cds followed by "except CDSDataError: pass" leaves: the
\* block, nothing, or an exception that is not handled there
CDSBlock(outcome) ==
    IF outcome = "ok" THEN << <<"cds">>, <<"">> >> ELSE <<>>

CDSEscapes(outcome) == outcome \notin {"ok", "CDSDataError"}

\* the yield-curve detail block, then the CDS scrape
ScrapeCDS ==
    /\ pc = "cds"
    /\ \E outcome \in CDSOutcomes :
         IF CDSEscapes(outcome)
           THEN /\ Raise(outcome)
                /\ lines' = lines \o YieldCurveBlock(yc_info)
           ELSE /\ lines' = lines \o YieldCurveBlock(yc_info) \o CDSBlock(outcome)
                /\ pc' = "send_brief"
                /\ UNCHANGED << log, result, exc >>
    /\ UNCHANGED << historyFile, clock, nl_yoy, repo_level, yc_spread,
                    yc_info, cycle_info, today_snapshot, history, trend, chat,
                    fileAtStart, arg, ret >>

brief_text ==
    build_brief_message(
        build_dynamic_summary(nl_yoy, repo_level, yc_spread),
        build_crypto_cycle_line(cycle_info),
        build_escape_top_line(nl_yoy, repo_level, yc_spread),
        build_risk_score_line(nl_yoy, repo_level, yc_spread),
        build_position_advice_line(cycle_info),
        trend.lines_7, trend.lines_30, trend.cycle_shift_line)

full_text == lines

FullReport == << <<"full header">>, <<"">> >> \o full_text

Message(text) == [api |-> "sendMessage", text |-> text]

Photo == [api |-> "sendPhoto", text |-> << <<"chart caption">> >>]

\* the first send with its failure swallowed: the run goes on to the second
SendFirstText_Swallow ==
    /\ pc = "send_brief"
    /\ \/ chat' = Append(chat, Message(brief_text))
       \/ UNCHANGED chat
    /\ pc' = "send_full"
    /\ UNCHANGED << historyFile, clock, nl_yoy, repo_level, yc_spread,
                    yc_info, cycle_info, today_snapshot, history, trend,
                    lines, log, result, exc, fileAtStart, arg, ret >>

\* the first send_telegram_message of the run
SendFirstText ==
    /\ pc = "send_brief"
    /\ \/ /\ chat' = Append(chat, Message(IF SEND_BOTH_TEXTS THEN brief_text
                                                             ELSE full_text))
          /\ IF SEND_BOTH_TEXTS
               THEN /\ pc' = "send_full"
                    /\ UNCHANGED log
               ELSE /\ pc' = "chart"
                    /\ log' = Append(log, "ok text")
          /\ UNCHANGED << result, exc >>
       \/ /\ Raise("TelegramError")
          /\ UNCHANGED chat
    /\ UNCHANGED << historyFile, clock, nl_yoy, repo_level, yc_spread,
                    yc_info, cycle_info, today_snapshot, history, trend,
                    lines, fileAtStart, arg, ret >>

\* the second send with the history saved before it
SendFullReport_SaveFirst ==
    /\ pc = "send_full"
    /\ historyFile' = save_history(Append(history, today_snapshot))
    /\ \/ /\ chat' = Append(chat, Message(FullReport))
          /\ log' = Append(log, "ok text")
          /\ pc' = "chart"
          /\ UNCHANGED << result, exc >>
       \/ /\ Raise("TelegramError")
          /\ UNCHANGED chat
    /\ UNCHANGED << clock, nl_yoy, repo_level, yc_spread,
                    yc_info, cycle_info, today_snapshot, history, trend,
                    lines, fileAtStart, arg, ret >>

\* the second send_telegram_message, then the "[ok]" line
SendFullReport ==
    /\ pc = "send_full"
    /\ \/ /\ chat' = Append(chat, Message(FullReport))
          /\ log' = Append(log, "ok text")
          /\ pc' = "chart"
          /\ UNCHANGED << result, exc >>
       \/ /\ Raise("TelegramError")
          /\ UNCHANGED chat
    /\ UNCHANGED << historyFile, clock, nl_yoy, repo_level, yc_spread,
                    yc_info, cycle_info, today_snapshot, history, trend,
                    lines, fileAtStart, arg, ret >>

\* the chart step without its own try/except: a failure reaches the outer
\* handler as TelegramError
ChartAndPhoto_Propagate ==
    /\ pc = "chart"
    /\ \/ /\ chat' = Append(chat, Photo)
          /\ log' = Append(log, "ok chart")
          /\ pc' = "update_history"
          /\ UNCHANGED << result, exc >>
       \/ /\ Raise("TelegramError")
          /\ UNCHANGED chat
    /\ UNCHANGED << historyFile, clock, nl_yoy, repo_level, yc_spread,
                    yc_info, cycle_info, today_snapshot, history, trend,
                    lines, fileAtStart, arg, ret >>

\* generate_liquidity_chart and send_telegram_photo inside
\* "try ... except Exception": the photo is sent, or either call raised and a
\* warning is printed
ChartAndPhoto ==
    /\ pc = "chart"
    /\ \/ /\ chat' = Append(chat, Photo)
          /\ log' = Append(log, "ok chart")
       \/ /\ log' = Append(log, "warn")
          /\ UNCHANGED chat
    /\ pc' = "update_history"
    /\ UNCHANGED << historyFile, clock, nl_yoy, repo_level, yc_spread,
                    yc_info, cycle_info, today_snapshot, history, trend,
                    lines, result, exc, fileAtStart, arg, ret >>

\* the update without the search for today's record
UpdatedHistory_AlwaysAppend(h, snapshot) == Append(h, snapshot)

\* the update with the date test lost: the first record is replaced
UpdatedHistory_FirstRecord(h, snapshot) ==
    IF h # <<>> THEN [h EXCEPT ![1] = snapshot] ELSE Append(h, snapshot)

\* the loop that replaces the first record dated today, or the append
UpdatedHistory(h, snapshot) ==
    IF \E i \in 1..Len(h) : h[i].date = snapshot.date
      THEN LET i == CHOOSE i \in 1..Len(h) :
                      /\ h[i].date = snapshot.date
                      /\ \A j \in 1..(i - 1) : h[j].date # snapshot.date
           IN  [h EXCEPT ![i] = snapshot]
      ELSE Append(h, snapshot)

\* the history update and save_history; the run returns
UpdateHistory ==
    /\ pc = "update_history"
    /\ history' = UpdatedHistory(history, today_snapshot)
    /\ historyFile' = save_history(history')
    /\ pc' = "done"
    /\ result' = "returned"
    /\ UNCHANGED << clock, nl_yoy, repo_level, yc_spread, yc_info, cycle_info,
                    today_snapshot, trend, lines, chat, log, exc,
                    fileAtStart, arg, ret >>

Next ==
    \/ StartRun
    \/ FetchNetLiquidity
    \/ FetchRepo
    \/ FetchYieldCurve
    \/ BuildTrend
    \/ FetchTGA
    \/ FetchRRP
    \/ FetchFedBS
    \/ ScrapeCDS
    \/ SendFirstText
    \/ SendFullReport
    \/ ChartAndPhoto
    \/ UpdateHistory

Spec == Init /\ [][Next]_vars

\* ------------------------------------------------------------------------
\* save_history on its own: the list to save is drawn from the bounded set
\* of lists below
\* ------------------------------------------------------------------------
\* dates of the records handed to save_history: days, a missing date and a
\* string that does not parse
SaveDates == { None, BadDateStr } \cup { strftime(d) : d \in 1..3 }

SaveRecords ==
    { [date |-> d, nl_yoy |-> y, repo_level |-> Some(1),
       yc_spread |-> Some(50), stage |-> "Late Transition",
       label |-> StageLabel("Late Transition")] :
      d \in SaveDates, y \in { None, Some(300) } }

RECURSIVE ListsUpTo(_, _)
ListsUpTo(S, n) ==
    IF n = 0 THEN { <<>> }
    ELSE LET shorter == ListsUpTo(S, n - 1)
         IN  shorter \cup { Append(l, x) : l \in shorter, x \in S }

InitSave ==
    /\ history \in ListsUpTo(SaveRecords, HistoryCap + 2)
    /\ historyFile = <<>>
    /\ clock = 1
    /\ pc = "save"
    /\ nl_yoy = None
    /\ repo_level = None
    /\ yc_spread = None
    /\ yc_info = None
    /\ cycle_info = NoCycle
    /\ today_snapshot = NoSnapshot
    /\ trend = NoTrend
    /\ lines = <<>>
    /\ chat = <<>>
    /\ log = <<>>
    /\ result = "none"
    /\ exc = ""
    /\ fileAtStart = <<>>
    /\ arg = None
    /\ ret = None

SaveOnly ==
    /\ pc = "save"
    /\ historyFile' = save_history(history)
    /\ pc' = "saved"
    /\ UNCHANGED << clock, nl_yoy, repo_level, yc_spread, yc_info, cycle_info,
                    today_snapshot, history, trend, lines, chat, log, result,
                    exc, fileAtStart, arg, ret >>

NextSave == SaveOnly

SpecSave == InitSave /\ [][NextSave]_vars

\* ------------------------------------------------------------------------
\* Properties
\* ------------------------------------------------------------------------
RunEnded == pc = "done"

\* the run built today's snapshot, i.e. it got past the yield-curve fetch
SnapshotBuilt == today_snapshot.date # None

YieldCurveFailed == SnapshotBuilt /\ yc_info = None

BriefSent ==
    \E i \in 1..Len(chat) :
        /\ chat[i].api = "sendMessage"
        /\ chat[i].text[1] = <<"brief header">>

FullSent ==
    \E i \in 1..Len(chat) :
        /\ chat[i].api = "sendMessage"
        /\ chat[i].text[1] = <<"full header">>

PhotoSent == \E i \in 1..Len(chat) : chat[i].api = "sendPhoto"

\* the text of the full report the chat received
SentFullText ==
    (CHOOSE m \in Range(chat) :
        m.api = "sendMessage" /\ m.text[1] = <<"full header">>).text

RequiredFetchErrors ==
    { "NetLiqDataError", "RepoDataError", "TGADataError", "RRPDataError",
      "FedBSDataError" }

\* exceptions of the CDS scrape that no handler of the run names
CDSEscapeErrors == { "RequestException", "ValueError" }

TodayPersisted ==
    \E i \in 1..Len(historyFile) : historyFile[i] = today_snapshot

\* C1: when the yield-curve fetch fails and the required fetches, the CDS
\* scrape and the delivery calls do not, the run sends the short summary and
\* the full report, and the full report has the yield-curve placeholder line
\* and no detailed yield-curve block, whatever the persisted history is.
C1_YieldCurveFailureProceeds ==
    (RunEnded /\ YieldCurveFailed
       /\ exc \notin (CaughtErrors \cup CDSEscapeErrors))
    => /\ BriefSent
       /\ FullSent
       /\ \E i \in 1..Len(SentFullText) :
              SentFullText[i] = <<"yield curve", "fetch failed">>
       /\ \A i \in 1..Len(SentFullText) :
              SentFullText[i][1] = "yield curve"
                  => SentFullText[i] = <<"yield curve", "fetch failed">>

\* C2: with all three inputs absent the classifiers answer "Unknown", no
\* score and "insufficient signal"; and a run in which a headline metric is
\* absent still delivers the short and the full text, whatever the persisted
\* history is (no failure of a required fetch, the CDS scrape or a delivery
\* call assumed).
C2_AbsentMetricsStillDeliver ==
    /\ classify_crypto_cycle(None, None, None).stage = "Unknown"
    /\ compute_market_risk_score(None, None, None) = None
    /\ escape_top_signal(None, None, None) = "insufficient signal"
    /\ (RunEnded /\ SnapshotBuilt
          /\ (nl_yoy = None \/ repo_level = None \/ yc_spread = None)
          /\ exc \notin (CaughtErrors \cup CDSEscapeErrors))
       => (BriefSent /\ FullSent)

\* C3: a run that a required fetch ended with its data error sent nothing,
\* left the history file as it was, logged exactly one error line and
\* returned normally.
C3_RequiredFetchFailureAborts ==
    (RunEnded /\ exc \in RequiredFetchErrors)
    => /\ chat = <<>>
       /\ historyFile = fileAtStart
       /\ log = <<"error">>
       /\ result = "returned"

C3_Witness ==
    /\ RunEnded
    /\ exc = "FedBSDataError"
    /\ fileAtStart # <<>>
    /\ YieldCurveFailed = FALSE

\* C4 as claimed: in every finished run the chat received both the short
\* summary and the full report, or neither.
C4_BothOrNeither == RunEnded => (BriefSent <=> FullSent)

\* C4 amended: the full report is only ever delivered after the short
\* summary; a run that a text delivery ended with TelegramError delivered no
\* full report and no photo (at most the short summary), left the history
\* file as it was, logged one error line and returned.
C4_FailedDeliveryStopsRun ==
    /\ FullSent => (Len(chat) >= 2 /\ chat[1] = Message(brief_text)
                                   /\ chat[2] = Message(FullReport))
    /\ (RunEnded /\ exc = "TelegramError")
       => /\ ~FullSent
          /\ ~PhotoSent
          /\ chat \in { <<>>, << Message(brief_text) >> }
          /\ historyFile = fileAtStart
          /\ log = <<"error">>
          /\ result = "returned"

C4_Witness ==
    /\ RunEnded
    /\ exc = "TelegramError"
    /\ chat = << Message(brief_text) >>

\* the CDS step was reached and left no CDS block
CDSFailed ==
    /\ \E i \in 1..Len(lines) : lines[i][1] = "yield curve"
    /\ \A i \in 1..Len(lines) : lines[i] # <<"cds">>

\* C5: whenever the CDS scrape fails (and no delivery call does), the CDS
\* block is left out, both text messages are sent and the history is
\* persisted.
C5_CDSFailureIsolated ==
    (RunEnded /\ CDSFailed /\ exc # "TelegramError")
    => /\ BriefSent
       /\ FullSent
       /\ TodayPersisted

\* the texts went out and the chart step ended without a photo
ChartFailed ==
    /\ pc \in {"update_history", "done"}
    /\ \E i \in 1..Len(log) : log[i] = "ok text"
    /\ ~PhotoSent

\* C6: a failure of the chart generation or of the photo delivery comes
\* after both text messages were delivered and leaves them delivered, is
\* logged as one warning, and the run goes on to update and save the history
\* and returns normally.
C6_ChartFailureCaught ==
    ChartFailed
    => /\ chat = << Message(brief_text), Message(FullReport) >>
       /\ log = << "ok text", "warn" >>
       /\ exc = ""
       /\ RunEnded
            => /\ result = "returned"
               /\ TodayPersisted
               /\ historyFile
                    = save_history(UpdatedHistory(fileAtStart, today_snapshot))

C6_Witness ==
    /\ RunEnded
    /\ ChartFailed
    /\ fileAtStart # <<>>
    /\ historyFile # fileAtStart

\* C7: no exception leaves run_liquidity_dashboard: every run ends with a
\* normal return, and a run that failed logged a single line.
C7_NoExceptionEscapes ==
    RunEnded
    => /\ result = "returned"
       /\ (exc # "" => log = <<"error">>)

\* the records of list l at the positions in S, as a bag: how often r occurs
CountAt(l, S, r) == Cardinality({ i \in S : l[i] = r })

\* C8: save_history given more than HistoryCap records (400 in the code)
\* writes exactly HistoryCap of them, the ones with the latest dates: every
\* record left out is dated no later than every record written (a record
\* whose date is missing or does not parse counts as dated 1900-01-01); a
\* list of at most HistoryCap records is written unchanged.
C8_SaveKeepsLatest ==
    pc = "saved"
    => IF Len(history) > HistoryCap
         THEN /\ Len(historyFile) = HistoryCap
              /\ \E S \in SUBSET (1..Len(history)) :
                   /\ Cardinality(S) = HistoryCap
                   /\ \A r \in Range(history) \cup Range(historyFile) :
                        CountAt(historyFile, 1..Len(historyFile), r)
                          = CountAt(history, S, r)
                   /\ \A i \in S : \A j \in (1..Len(history)) \ S :
                        _parse_date(history[j]) <= _parse_date(history[i])
         ELSE historyFile = history

\* a 401st record was inserted and the record dropped is not the first of
\* the list
C8_Witness ==
    /\ pc = "saved"
    /\ Len(history) = HistoryCap + 1
    /\ Len(historyFile) = HistoryCap
    /\ _parse_date(history[1]) > _parse_date(history[2])
    /\ history[1] \in Range(historyFile)
    /\ history[2] \notin Range(historyFile)

\* C9: a run changes the history only at the record dated today: the list
\* the lookups worked on is the list that was loaded, every record of
\* another date that was in the file before the run is in it afterwards
\* with the same field values unless the cap dropped it, and every record in
\* the file afterwards was there before or is today's snapshot.
C9_OnlyTodayChanges ==
    /\ pc \in {"tga", "rrp", "fed_bs", "cds", "send_brief", "send_full",
               "chart", "update_history"} => history = fileAtStart
    /\ \A i \in 1..Len(fileAtStart) :
         fileAtStart[i].date # strftime(clock)
         => \/ fileAtStart[i] \in Range(historyFile)
            \/ /\ Len(historyFile) = HistoryCap
               /\ Len(fileAtStart) = HistoryCap
               /\ \A k \in 1..Len(historyFile) :
                    _parse_date(fileAtStart[i]) <= _parse_date(historyFile[k])
    /\ \A k \in 1..Len(historyFile) :
         \/ historyFile[k] \in Range(fileAtStart)
         \/ historyFile[k] = today_snapshot

\* a run on a new day with a full history: the earliest record fell to the
\* cap, the others are kept
C9_Witness ==
    /\ RunEnded
    /\ result = "returned"
    /\ exc = ""
    /\ Len(fileAtStart) = HistoryCap
    /\ fileAtStart[1] \notin Range(historyFile)
    /\ \A i \in 2..HistoryCap : fileAtStart[i] \in Range(historyFile)
    /\ TodayPersisted

\* C10: starting from an empty history the file holds at most one record
\* per date, and a run on a day that already has a record overwrites that
\* record in place with the new snapshot.
C10_DateIsKey ==
    /\ \A i, j \in 1..Len(historyFile) :
         i # j => historyFile[i].date # historyFile[j].date
    /\ (RunEnded /\ result = "returned" /\ exc = "")
       => \A i \in 1..Len(fileAtStart) :
            fileAtStart[i].date = today_snapshot.date
            => /\ Len(historyFile) = Len(fileAtStart)
               /\ historyFile[i] = today_snapshot

C10_Witness ==
    /\ RunEnded
    /\ result = "returned"
    /\ exc = ""
    /\ \E i \in 1..Len(fileAtStart) :
         /\ fileAtStart[i].date = today_snapshot.date
         /\ fileAtStart[i] # today_snapshot
         /\ historyFile[i] = today_snapshot

\* ------------------------------------------------------------------------
\* Functions applied on their own: `arg' names the function and holds its
\* arguments, `ret' is what the call returned
\* ------------------------------------------------------------------------
\* liquidity YoY values around every threshold of the classifiers
NlGrid ==
    { -1500, -1001, -1000, -999, -501, -500, -499, -1, 0, 1, 199, 200, 201,
      499, 500, 501, 999, 1000, 1001, 1499, 1500, 1501, 2000 }

\* repo levels 0..5 (2 included: the classifiers accept it)
LevelGrid == 0..5

\* yield spreads around every threshold of the classifiers
SpreadGrid == { -75, -51, -50, -49, -11, -10, -9, -1, 0, 1, 49, 50, 60 }

Opt(S) == { None } \cup { Some(x) : x \in S }

ClassifyArgs ==
    { [fn |-> "classify", nl |-> n, repo |-> l, yc |-> y] :
      n \in Opt(NlGrid), l \in Opt(LevelGrid), y \in Opt(SpreadGrid) }

\* the text blocks of the three required detail monitors, in report order
DetailBlocks ==
    << <<"tga">>, <<"">>, <<"rrp">>, <<"">>, <<"fed balance sheet">>, <<"">> >>

\* the two texts of a run in which no step raises: nl and repo are the
\* headline metrics, info the yield-curve result (None after
\* YieldCurveError), cds the outcome of the CDS scrape, day the UTC day and
\* hist the loaded history
RunTexts(nl, repo, info, cds, day, hist) ==
    LET yc == IF info = None THEN None ELSE Some(Val(info).spread)
        ci == classify_crypto_cycle(nl, repo, yc)
        snap == [date |-> strftime(day), nl_yoy |-> nl, repo_level |-> repo,
                 yc_spread |-> yc, stage |-> ci.stage, label |-> ci.label]
        tr == build_trend_sections(snap, hist)
    IN  [brief |-> build_brief_message(
                       build_dynamic_summary(nl, repo, yc),
                       build_crypto_cycle_line(ci),
                       build_escape_top_line(nl, repo, yc),
                       build_risk_score_line(nl, repo, yc),
                       build_position_advice_line(ci),
                       tr.lines_7, tr.lines_30, tr.cycle_shift_line),
         full |-> << <<"full header">>, <<"">> >>
                  \o ReportHead(nl, repo, yc, ci, tr)
                  \o DetailBlocks
                  \o YieldCurveBlock(info)
                  \o CDSBlock(cds)]

\* days on which the two compared runs take place
RunDays == 1..3

TwoRunsArgs ==
    { [fn |-> "two_runs", nl |-> YoY(v[1], v[2]),
       repo |-> Some(assess_repo_stress(r)), info |-> i, cds |-> c,
       day1 |-> d1, day2 |-> d2] :
      v \in NetLiqValues, r \in RepoValues,
      i \in { None } \cup { Some([spread |-> x]) : x \in SpreadValues },
      c \in { "ok", "CDSDataError" }, d1 \in RunDays, d2 \in RunDays }

\* repo values in tenths around every breakpoint of assess_repo_stress
RepoStressGrid ==
    { -10, 0, 49, 50, 51, 149, 150, 151, 299, 300, 301, 499, 500, 501, 1000 }

RepoStressArgs == { [fn |-> "repo_stress", value |-> v] : v \in RepoStressGrid }

\* a snapshot as run_liquidity_dashboard builds it
Snapshot(day, nl, repo, yc) ==
    [date |-> strftime(day), nl_yoy |-> nl, repo_level |-> repo,
     yc_spread |-> yc,
     stage |-> classify_crypto_cycle(nl, repo, yc).stage,
     label |-> classify_crypto_cycle(nl, repo, yc).label]

\* the record the 7-day lookup of day 8 finds
TrendRef == Snapshot(1, Some(300), Some(3), Some(-20))

\* differences to the reference around the thresholds 0.1, 0 and 0.02
NlDeltas == { -30, -11, -10, -9, -5, 0, 5, 9, 10, 11, 30 }

RepoDeltas == { -3, -2, 0, 1, 2 }

YcDeltas == { -5, -3, -2, -1, 0, 1, 2, 3, 5 }

TrendArgs ==
    { [fn |-> "trend", today |-> Snapshot(8, n, Some(3 + r), Some(-20 + y)),
       history |-> h] :
      n \in { None } \cup { Some(300 + d) : d \in NlDeltas },
      r \in RepoDeltas, y \in YcDeltas, h \in { <<>>, <<TrendRef>> } }

\* "not x" of an environment value: unset or the empty string
Unset(x) == x = None \/ Val(x) = ""

\* _check_env: TRUE when it raises TelegramError
_check_env(token, chat_id) == Unset(token) \/ Unset(chat_id)

SendRaised(posts) == [raised |-> "TelegramError", posts |-> posts]

\* what a send call leaves after the one requests.post: the POST it made and
\* TelegramError unless the status is 200
Posted(method, chat_id, status) ==
    [raised |-> IF status # 200 THEN "TelegramError" ELSE "",
     posts |-> << [method |-> method, chat_id |-> Val(chat_id)] >>]

\* send_telegram_message
send_telegram_message(token, chat_id, status) ==
    IF _check_env(token, chat_id) THEN SendRaised(<<>>)
    ELSE Posted("sendMessage", chat_id, status)

\* send_telegram_photo that posts before it looks for the file
send_telegram_photo_PostFirst(token, chat_id, exists, status) ==
    IF _check_env(token, chat_id) THEN SendRaised(<<>>)
    ELSE IF ~exists THEN SendRaised(Posted("sendPhoto", chat_id, status).posts)
    ELSE Posted("sendPhoto", chat_id, status)

\* send_telegram_photo: exists is os.path.exists(photo_path)
send_telegram_photo(token, chat_id, exists, status) ==
    IF _check_env(token, chat_id) THEN SendRaised(<<>>)
    ELSE IF ~exists THEN SendRaised(<<>>)
    ELSE Posted("sendPhoto", chat_id, status)

\* send_telegram_document: exists is os.path.exists(file_path)
send_telegram_document(token, chat_id, exists, status) ==
    IF _check_env(token, chat_id) THEN SendRaised(<<>>)
    ELSE IF ~exists THEN SendRaised(<<>>)
    ELSE Posted("sendDocument", chat_id, status)

\* the values of TELEGRAM_BOT_TOKEN and TELEGRAM_CHAT_ID
EnvValues(v) == { None, Some(""), Some(v) }

\* the status codes the Bot API answers with
PostStatuses == { 200, 400, 500 }

SendArgs ==
    { [fn |-> "send", kind |-> k, token |-> t, chat_id |-> c, exists |-> e,
       status |-> st] :
      k \in {"message", "photo", "document"}, t \in EnvValues("token"),
      c \in EnvValues("chat"), e \in BOOLEAN, st \in PostStatuses }

\* a stored record with present metrics, the given date and stage
HistRecord(date, stage) ==
    [date |-> date, nl_yoy |-> Some(300), repo_level |-> Some(3),
     yc_spread |-> Some(-20), stage |-> stage, label |-> StageLabel(stage)]

\* dates of stored records: missing, unparseable, and days at equal and
\* unequal distances from the 7-day and 30-day targets of the days in
\* RefToday
RefDates == { None, BadDateStr } \cup { strftime(d) : d \in {9, 11, 32, 34, 40} }

RefToday == { 40, 41 }

\* one record per date, and a second record of day 32 with another stage
RefRecords ==
    { HistRecord(d, "Early Bull") : d \in RefDates }
    \cup { HistRecord(strftime(32), "Late Bull") }

\* the length up to which histories of a reference lookup are enumerated
MaxRefLen == 3

RefsArgs ==
    { [fn |-> "refs", history |-> h, today |-> t] :
      h \in ListsUpTo(RefRecords, MaxRefLen),
      t \in RefToday }

\* stage strings of stored records: the 9 stages, "Unknown", a string that
\* is no stage, and "" for a record without a stage
StoredStages == Range(STAGE_ORDER) \cup { "Unknown", "Sideways", "" }

CycleRecords ==
    { HistRecord(strftime(d), st) : d \in {10, 33}, st \in StoredStages }
    \cup { HistRecord(None, "Late Bull") }

\* the length up to which histories of a cycle comparison are enumerated
MaxCycleLen == 2

\* today's snapshots of day 40 in a low, a middle and the top stage
CycleToday ==
    { Snapshot(40, Some(n), Some(3), Some(-20)) : n \in {-1500, 300, 2000} }

CycleArgs ==
    { [fn |-> "cycle", today |-> t, history |-> h] :
      t \in CycleToday, h \in ListsUpTo(CycleRecords, MaxCycleLen) }

\* headline metrics on both sides of the warning rules: YoY around 0, every
\* repo level assess_repo_stress gives, each possibly absent
TextsArgs ==
    { [fn |-> "texts", nl |-> n, repo |-> l, info |-> i] :
      n \in Opt({ -300, -1, 0, 1, 300 }), l \in Opt({ 0, 1, 3, 4, 5 }),
      i \in { None, Some([spread |-> -20]) } }

FnArgs ==
    ClassifyArgs \cup TwoRunsArgs \cup RepoStressArgs \cup TrendArgs
    \cup SendArgs \cup RefsArgs \cup CycleArgs \cup TextsArgs

InitFn ==
    /\ arg \in FnArgs
    /\ ret = None
    /\ pc = "call"
    /\ historyFile = <<>>
    /\ clock = 1
    /\ nl_yoy = None
    /\ repo_level = None
    /\ yc_spread = None
    /\ yc_info = None
    /\ cycle_info = NoCycle
    /\ today_snapshot = NoSnapshot
    /\ history = <<>>
    /\ trend = NoTrend
    /\ lines = <<>>
    /\ chat = <<>>
    /\ log = <<>>
    /\ result = "none"
    /\ exc = ""
    /\ fileAtStart = <<>>

\* what stays as it is when a function is applied on its own
FnFrame ==
    UNCHANGED << historyFile, clock, nl_yoy, repo_level, yc_spread, yc_info,
                 cycle_info, today_snapshot, history, trend, lines, chat, log,
                 result, exc, fileAtStart, arg >>

Called == pc = "called"

\* classify_crypto_cycle, compute_market_risk_score and escape_top_signal
\* on one triple
CallClassifiers ==
    /\ pc = "call"
    /\ arg.fn = "classify"
    /\ ret' = [stage |-> classify_crypto_cycle(arg.nl, arg.repo, arg.yc).stage,
               label |-> classify_crypto_cycle(arg.nl, arg.repo, arg.yc).label,
               score |-> compute_market_risk_score(arg.nl, arg.repo, arg.yc),
               escape |-> escape_top_signal(arg.nl, arg.repo, arg.yc),
               risk_line |-> build_risk_score_line(arg.nl, arg.repo, arg.yc)]
    /\ pc' = "called"
    /\ FnFrame

\* two runs with the same fetched inputs and no history, on two days
CallTwoRuns ==
    /\ pc = "call"
    /\ arg.fn = "two_runs"
    /\ ret' = [first |-> RunTexts(arg.nl, arg.repo, arg.info, arg.cds,
                                  arg.day1, <<>>),
               second |-> RunTexts(arg.nl, arg.repo, arg.info, arg.cds,
                                   arg.day2, <<>>)]
    /\ pc' = "called"
    /\ FnFrame

\* assess_repo_stress on one value
CallRepoStress ==
    /\ pc = "call"
    /\ arg.fn = "repo_stress"
    /\ ret' = [level |-> assess_repo_stress(arg.value)]
    /\ pc' = "called"
    /\ FnFrame

\* build_trend_sections on one snapshot and one history
CallTrend ==
    /\ pc = "call"
    /\ arg.fn \in {"trend", "cycle"}
    /\ ret' = build_trend_sections(arg.today, arg.history)
    /\ pc' = "called"
    /\ FnFrame

\* one delivery call
CallSend ==
    /\ pc = "call"
    /\ arg.fn = "send"
    /\ ret' = CASE arg.kind = "message" ->
                     send_telegram_message(arg.token, arg.chat_id, arg.status)
                [] arg.kind = "photo" ->
                     send_telegram_photo(arg.token, arg.chat_id, arg.exists,
                                         arg.status)
                [] arg.kind = "document" ->
                     send_telegram_document(arg.token, arg.chat_id, arg.exists,
                                            arg.status)
    /\ pc' = "called"
    /\ FnFrame

\* the two lookups build_trend_sections starts with
CallReferences ==
    /\ pc = "call"
    /\ arg.fn = "refs"
    /\ ret' = [ref_7 |-> find_reference_entry(arg.history, arg.today, 7),
               ref_30 |-> find_reference_entry(arg.history, arg.today, 30)]
    /\ pc' = "called"
    /\ FnFrame

\* the two texts of a first run (no history) with the given metrics
CallTexts ==
    /\ pc = "call"
    /\ arg.fn = "texts"
    /\ ret' = RunTexts(arg.nl, arg.repo, arg.info, "ok", 1, <<>>)
    /\ pc' = "called"
    /\ FnFrame

NextFn ==
    \/ CallClassifiers
    \/ CallTwoRuns
    \/ CallRepoStress
    \/ CallTrend
    \/ CallSend
    \/ CallReferences
    \/ CallTexts

SpecFn == InitFn /\ [][NextFn]_vars

Stages == Range(STAGE_ORDER)

AllPresent == arg.nl # None /\ arg.repo # None /\ arg.yc # None

\* C11: for every triple, present or absent, classify_crypto_cycle returns
\* one of the 9 named stages or "Unknown"; and two runs with the same fetched
\* inputs and no history produce the same short text and the same full text,
\* whatever the days they run on.
C11_Deterministic ==
    /\ (Called /\ arg.fn = "classify") => ret.stage \in Stages \cup {"Unknown"}
    /\ (Called /\ arg.fn = "two_runs")
       => /\ ret.first.brief = ret.second.brief
          /\ ret.first.full = ret.second.full

C11_Witness ==
    /\ Called
    /\ arg.fn = "two_runs"
    /\ arg.day1 # arg.day2
    /\ arg.nl # None
    /\ arg.info # None
    /\ ret.first = ret.second
    /\ Len(ret.first.full) > Len(ret.first.brief)

\* C12: with the three inputs present the stage follows the table of the
\* five YoY bands, and the stage is "Unknown" only when an input is absent.
C12_DecisionTable ==
    (Called /\ arg.fn = "classify")
    => /\ AllPresent
          => LET y == Val(arg.nl)
                 l == Val(arg.repo)
                 sp == Val(arg.yc)
             IN  /\ (y <= -500 /\ l >= 3) => ret.stage = "Capitulation Bear"
                 /\ (y <= -500 /\ l < 3) => ret.stage = "Early/Mid Bear"
                 /\ (-500 < y /\ y <= 0 /\ l <= 2) => ret.stage = "Transition"
                 /\ (-500 < y /\ y <= 0 /\ l > 2)
                      => ret.stage = "Stress Transition"
                 /\ (0 < y /\ y <= 500 /\ sp < 0) => ret.stage = "Early Bull"
                 /\ (0 < y /\ y <= 500 /\ sp >= 0)
                      => ret.stage = "Late Transition"
                 /\ (500 < y /\ y <= 1500 /\ l <= 2) => ret.stage = "Mid Bull"
                 /\ (500 < y /\ y <= 1500 /\ l > 2)
                      => ret.stage = "Volatile Bull"
                 /\ y > 1500 => ret.stage = "Late Bull"
       /\ ret.stage = "Unknown" <=> ~AllPresent

C12_Witness ==
    /\ Called
    /\ arg.fn = "classify"
    /\ arg.nl = Some(2000)
    /\ arg.repo = Some(1)
    /\ arg.yc = Some(60)
    /\ ret.stage = "Late Bull"

\* C13: assess_repo_stress maps a value below 5 to level 0, below 15 to 1,
\* below 30 to 3, below 50 to 4 and anything else to 5, so the level is one
\* of 0, 1, 3, 4, 5 and never 2.
C13_RepoStressLevels ==
    (Called /\ arg.fn = "repo_stress")
    => /\ arg.value < 50 => ret.level = 0
       /\ (50 <= arg.value /\ arg.value < 150) => ret.level = 1
       /\ (150 <= arg.value /\ arg.value < 300) => ret.level = 3
       /\ (300 <= arg.value /\ arg.value < 500) => ret.level = 4
       /\ arg.value >= 500 => ret.level = 5
       /\ ret.level \in {0, 1, 3, 4, 5}

C13_Witness ==
    /\ Called
    /\ arg.fn = "repo_stress"
    /\ arg.value = 150
    /\ ret.level = 3

\* C14: compute_market_risk_score returns an integer from 0 to 100 when the
\* three inputs are present and None when any of them is absent.
C14_RiskScoreRange ==
    (Called /\ arg.fn = "classify")
    => /\ AllPresent => /\ ret.score # None
                        /\ Val(ret.score) \in 0..100
       /\ ~AllPresent => ret.score = None

C14_Witness ==
    /\ Called
    /\ arg.fn = "classify"
    /\ arg.nl = Some(-1500)
    /\ arg.repo = Some(5)
    /\ arg.yc = Some(60)
    /\ ret.score = Some(78)

\* the number of the four flags of escape_top_signal that a present triple
\* raises, counted from the claim's conditions
C15_FlagCount ==
    LET y == Val(arg.nl)
        l == Val(arg.repo)
        sp == Val(arg.yc)
    IN  Cardinality({ f \in 1..4 : \/ f = 1 /\ y > 1000
                                   \/ f = 2 /\ l >= 3
                                   \/ f = 3 /\ sp > -10
                                   \/ f = 4 /\ y < 200 })

\* C15: escape_top_signal answers "activate exit strategy" with two or more
\* flags, "watch" with exactly one, "no exit warranted" with none and
\* "insufficient signal" when an input is absent; no triple raises more than
\* three flags.
C15_EscapeTopSignal ==
    (Called /\ arg.fn = "classify")
    => /\ ~AllPresent => ret.escape = "insufficient signal"
       /\ AllPresent
          => /\ C15_FlagCount >= 2 => ret.escape = "activate exit strategy"
             /\ C15_FlagCount = 1 => ret.escape = "watch"
             /\ C15_FlagCount = 0 => ret.escape = "no exit warranted"
             /\ C15_FlagCount <= 3

C15_Witness ==
    /\ Called
    /\ arg.fn = "classify"
    /\ AllPresent
    /\ Val(arg.yc) = -10
    /\ C15_FlagCount = 1
    /\ ret.escape = "watch"

\* ------------------------------------------------------------------------
\* Series monitors: fetch, year-ago lookup, YoY and text
\* ------------------------------------------------------------------------
\* timedelta(days=365) of the year-ago lookups
YearDays == 365

\* the "value" of a raw observation: JSON null, ".", "" or the text of a
\* number (float() gives num)
Null == [kind |-> "null", num |-> 0]

Dot == [kind |-> "dot", num |-> 0]

EmptyStr == [kind |-> "empty", num |-> 0]

NumStr(n) == [kind |-> "num", num |-> n]

\* obs.get("value") not in (None, ".", "")
Usable(v) == v.kind \notin {"null", "dot", "empty"}

\* the list comprehension that keeps the usable points, in response order
RECURSIVE Cleaned(_)
Cleaned(observations) ==
    IF observations = <<>> THEN <<>>
    ELSE LET o == Head(observations)
             rest == Cleaned(Tail(observations))
         IN  IF Usable(o.value)
               THEN <<[date |-> o.date, value |-> o.value.num]>> \o rest
               ELSE rest

RECURSIVE SortObsPairs(_)
SortObsPairs(obs) ==
    IF obs = <<>> THEN <<>>
    ELSE LET n == Len(obs)
         IN  InsertByKey(obs[n], obs[n].date, SortObsPairs(SubSeq(obs, 1, n - 1)))

\* cleaned.sort(key=lambda x: x["date"])
SortObs(obs) == LET p == SortObsPairs(obs) IN [i \in 1..Len(p) |-> p[i].r]

FetchRaised(e) == [raised |-> e, obs |-> <<>>]

FetchReturned(obs) == [raised |-> "", obs |-> obs]

\* _fetch_observations that returns the points in response order
_fetch_observations_Unsorted(err, key, resp) ==
    IF ~key THEN FetchRaised(err)
    ELSE IF resp.status # 200 THEN FetchRaised(err)
    ELSE IF Cleaned(resp.observations) = <<>> THEN FetchRaised(err)
    ELSE FetchReturned(Cleaned(resp.observations))

\* _fetch_observations of tga_monitor, rrp_monitor and fed_bs_monitor; err is
\* the module's data error, key tells whether FRED_API_KEY is set
_fetch_observations(err, key, resp) ==
    IF ~key THEN FetchRaised(err)
    ELSE IF resp.status # 200 THEN FetchRaised(err)
    ELSE IF Cleaned(resp.observations) = <<>> THEN FetchRaised(err)
    ELSE FetchReturned(SortObs(Cleaned(resp.observations)))

\* fetch_repo_observations of repo_liquidity: no sort
fetch_repo_observations(key, resp) ==
    IF ~key THEN FetchRaised("RepoDataError")
    ELSE IF resp.status # 200 THEN FetchRaised("RepoDataError")
    ELSE IF Cleaned(resp.observations) = <<>> THEN FetchRaised("RepoDataError")
    ELSE FetchReturned(Cleaned(resp.observations))

\* fetch_fred of yield_curve: no test of the key, no test of an empty
\* result, no sort
fetch_fred(key, resp) ==
    IF resp.status # 200 THEN FetchRaised("YieldCurveError")
    ELSE FetchReturned(Cleaned(resp.observations))

\* the loop of _find_year_ago: the last point of the leading run of points
\* dated at or before target
RECURSIVE YearAgoScan(_, _, _)
YearAgoScan(observations, target, candidate) ==
    IF observations = <<>> THEN candidate
    ELSE IF Head(observations).date <= target
      THEN YearAgoScan(Tail(observations), target, Some(Head(observations)))
      ELSE candidate

\* the year-ago lookup that stops at the first point it accepts
_find_year_ago_First(observations, latest_date) ==
    IF observations # <<>> /\ Head(observations).date <= latest_date - YearDays
      THEN Some(Head(observations))
      ELSE None

\* _find_year_ago: None stands for the raise of the module's data error
_find_year_ago(observations, latest_date) ==
    YearAgoScan(observations, latest_date - YearDays, None)

StatusRaised(e) == [raised |-> e, info |-> None]

StatusReturned(info) == [raised |-> "", info |-> Some(info)]

\* get_tga_status, get_rrp_status and get_fed_bs_status
get_status(err, key, resp) ==
    LET f == _fetch_observations(err, key, resp)
    IN  IF f.raised # "" THEN StatusRaised(f.raised)
        ELSE LET latest == f.obs[Len(f.obs)]
                 year_ago == _find_year_ago(f.obs, latest.date)
             IN  IF year_ago = None THEN StatusRaised(err)
                 ELSE StatusReturned(
                        [latest_date |-> latest.date,
                         latest_value |-> latest.value,
                         year_ago_date |-> Val(year_ago).date,
                         year_ago_value |-> Val(year_ago).value,
                         yoy |-> YoY(latest.value, Val(year_ago).value)])

\* f"{yoy:+.2f}%" of a value in hundredths, or "N/A"
yoy_str(yoy) ==
    IF yoy = None THEN <<"N/A">>
    ELSE LET v == Val(yoy)
             a == AbsInt(v)
         IN  << IF v < 0 THEN "-" ELSE "+", ToString(a \div 100), ".",
                ToString((a % 100) \div 10), ToString(a % 10), "%" >>

\* the comment each text builder picks from the yoy
MetricComment(name, yoy) ==
    IF yoy = None THEN "yoy cannot be computed"
    ELSE LET v == Val(yoy)
         IN  CASE name = "net_liquidity" ->
                    (IF v > 500 THEN "refilling"
                     ELSE IF v > -500 THEN "flat" ELSE "draining")
               [] name = "tga" ->
                    (IF v > 2000 THEN "large rise"
                     ELSE IF v > 0 THEN "mild rise"
                     ELSE IF v < -2000 THEN "clear fall" ELSE "limited")
               [] name = "rrp" ->
                    (IF v < -7000 THEN "large fall"
                     ELSE IF v < 0 THEN "fall"
                     ELSE IF v > 5000 THEN "clear rise" ELSE "limited")
               [] OTHER ->
                    (IF v > 500 THEN "expanding"
                     ELSE IF v > -200 THEN "flat" ELSE "shrinking")

\* build_net_liquidity_text, build_tga_text, build_rrp_text and
\* build_fed_bs_text: the five lines of the block
build_metric_text(name, info) ==
    << <<name>>,
       <<"latest", ToString(info.latest_value), ToString(info.latest_date)>>,
       <<"year ago", ToString(info.year_ago_value), ToString(info.year_ago_date)>>,
       <<"YoY">> \o yoy_str(info.yoy),
       <<"comment", MetricComment(name, info.yoy)>> >>

\* the dict _fetch_series builds: the last usable value of each date
SeriesDict(cleaned) ==
    [d \in { cleaned[i].date : i \in 1..Len(cleaned) } |->
       LET last == CHOOSE i \in 1..Len(cleaned) :
                     /\ cleaned[i].date = d
                     /\ \A j \in 1..Len(cleaned) : cleaned[j].date = d => j <= i
       IN  cleaned[last].value]

SeriesRaised == [raised |-> "NetLiqDataError", series |-> <<>>]

\* _fetch_series of net_liquidity
_fetch_series(key, resp) ==
    IF ~key THEN SeriesRaised
    ELSE IF resp.status # 200 THEN SeriesRaised
    ELSE IF resp.observations = <<>> THEN SeriesRaised
    ELSE IF Cleaned(resp.observations) = <<>> THEN SeriesRaised
    ELSE [raised |-> "", series |-> SeriesDict(Cleaned(resp.observations))]

SetMax(S) == CHOOSE x \in S : \A y \in S : y <= x

\* the dates every series of the list has
CommonDates(series_dicts) ==
    { d \in DOMAIN series_dicts[1] :
        \A i \in 2..Len(series_dicts) : d \in DOMAIN series_dicts[i] }

\* _find_latest_common_date: None stands for the raise of NetLiqDataError
_find_latest_common_date(series_dicts) ==
    IF CommonDates(series_dicts) = {} THEN None
    ELSE Some(SetMax(CommonDates(series_dicts)))

\* the year-ago lookup that takes the earliest candidate
_find_year_ago_common_date_Earliest(series_dicts, latest_date) ==
    LET candidates == { d \in CommonDates(series_dicts) :
                          d <= latest_date - YearDays }
    IN  IF candidates = {} THEN None
        ELSE Some(CHOOSE x \in candidates : \A y \in candidates : x <= y)

\* _find_year_ago_common_date: None stands for the raise of NetLiqDataError
_find_year_ago_common_date(series_dicts, latest_date) ==
    LET candidates == { d \in CommonDates(series_dicts) :
                          d <= latest_date - YearDays }
    IN  IF candidates = {} THEN None ELSE Some(SetMax(candidates))

\* the part of get_net_liquidity_status after the three fetches
NetLiquidityOf(walcl, tga, rrp) ==
    LET series_list == <<walcl, tga, rrp>>
        latest_date == _find_latest_common_date(series_list)
    IN  IF latest_date = None THEN StatusRaised("NetLiqDataError")
        ELSE LET year_ago_date ==
                     _find_year_ago_common_date(series_list, Val(latest_date))
             IN  IF year_ago_date = None THEN StatusRaised("NetLiqDataError")
                 ELSE LET l == Val(latest_date)
                          y == Val(year_ago_date)
                          latest_val == walcl[l] - tga[l] - rrp[l]
                          prev_val == walcl[y] - tga[y] - rrp[y]
                      IN  StatusReturned(
                            [latest_date |-> l,
                             latest_value |-> latest_val,
                             year_ago_date |-> y,
                             year_ago_value |-> prev_val,
                             yoy |-> YoY(latest_val, prev_val)])

\* get_net_liquidity_status: the three fetches in order, then the dates
get_net_liquidity_status(key, r_walcl, r_tga, r_rrp) ==
    LET walcl == _fetch_series(key, r_walcl)
        tga == _fetch_series(key, r_tga)
        rrp == _fetch_series(key, r_rrp)
    IN  IF walcl.raised # "" THEN StatusRaised(walcl.raised)
        ELSE IF tga.raised # "" THEN StatusRaised(tga.raised)
        ELSE IF rrp.raised # "" THEN StatusRaised(rrp.raised)
        ELSE NetLiquidityOf(walcl.series, tga.series, rrp.series)

\* ------------------------------------------------------------------------
\* The series monitors on their own: responses drawn from bounded sets
\* ------------------------------------------------------------------------
\* the days a response may hold a point for: two at or before the latest
\* minus YearDays, one just after it, and the latest
ObsDateList == <<1, 2, 3, 367>>

\* the values of a single series on those days
ValueTables == { <<100, 0, 50, 200>>, <<200, -100, 50, 100>> }

\* the values of WALCL, TGA and RRP on those days: net 100, 0, 250, 200
WalclTable == <<300, 400, 450, 500>>

TgaTable == <<100, 200, 100, 100>>

RrpTable == <<100, 200, 100, 200>>

\* the observations of a response in ascending order, from day i on: c tells
\* for each day whether the point is absent, a sentinel or a number
RECURSIVE RawObs(_, _, _, _)
RawObs(c, sentinel, table, i) ==
    IF i > Len(ObsDateList) THEN <<>>
    ELSE (IF c[i] = "absent" THEN <<>>
          ELSE <<[date |-> ObsDateList[i],
                  value |-> IF c[i] = "sentinel" THEN sentinel
                            ELSE NumStr(table[i])]>>)
         \o RawObs(c, sentinel, table, i + 1)

Reverse(s) == [i \in 1..Len(s) |-> s[Len(s) + 1 - i]]

ObsChoices == [1..Len(ObsDateList) -> {"absent", "sentinel", "num"}]

NumChoices == [1..Len(ObsDateList) -> {"absent", "num"}]

RawListsAscending ==
    { RawObs(c, sn, t, 1) :
      c \in ObsChoices, sn \in {Null, Dot, EmptyStr}, t \in ValueTables }

\* observation lists in ascending and in descending order of date
RawLists == RawListsAscending \cup { Reverse(o) : o \in RawListsAscending }

Ok(observations) == [status |-> 200, observations |-> observations]

\* the answer to a request without api_key
BadRequest == [status |-> 400, observations |-> <<>>]

ServerError == [status |-> 500, observations |-> <<>>]

Responses == { Ok(o) : o \in RawLists } \cup { BadRequest, ServerError }

MonitorError(m) ==
    CASE m = "tga" -> "TGADataError"
      [] m = "rrp" -> "RRPDataError"
      [] m = "fed_bs" -> "FedBSDataError"
      [] m = "repo" -> "RepoDataError"
      [] m = "yield_curve" -> "YieldCurveError"

\* the series fetch of each of the five monitors
Fetch(m, key, resp) ==
    CASE m \in {"tga", "rrp", "fed_bs"} ->
           _fetch_observations(MonitorError(m), key, resp)
      [] m = "repo" -> fetch_repo_observations(key, resp)
      [] m = "yield_curve" -> fetch_fred(key, resp)

FetchArgs ==
    { [fn |-> "fetch", monitor |-> m, key |-> TRUE, resp |-> r] :
      m \in {"tga", "rrp", "fed_bs", "repo", "yield_curve"}, r \in Responses }
    \cup
    { [fn |-> "fetch", monitor |-> m, key |-> FALSE, resp |-> BadRequest] :
      m \in {"tga", "rrp", "fed_bs", "repo", "yield_curve"} }

StatusArgs ==
    { [fn |-> "status", monitor |-> m, key |-> TRUE, resp |-> r] :
      m \in {"tga", "rrp", "fed_bs"}, r \in Responses }
    \cup
    { [fn |-> "status", monitor |-> m, key |-> FALSE, resp |-> BadRequest] :
      m \in {"tga", "rrp", "fed_bs"} }

WalclResponses == { Ok(RawObs(c, Dot, WalclTable, 1)) : c \in ObsChoices }

TgaResponses == { Ok(RawObs(c, Dot, TgaTable, 1)) : c \in NumChoices }

RrpResponses ==
    { Ok(RawObs(c, Dot, RrpTable, 1)) :
      c \in { x \in NumChoices : x[1] = "num" /\ x[3] = "num" } }

FullResponse(table) == Ok(RawObs([i \in 1..Len(ObsDateList) |-> "num"], Dot, table, 1))

NetLiqArgs ==
    { [fn |-> "net_liquidity", key |-> TRUE, walcl |-> w, tga |-> t, rrp |-> r] :
      w \in WalclResponses, t \in TgaResponses, r \in RrpResponses }
    \cup
    { [fn |-> "net_liquidity", key |-> TRUE, walcl |-> w, tga |-> t, rrp |-> r] :
      w \in {FullResponse(WalclTable), ServerError},
      t \in {FullResponse(TgaTable), ServerError},
      r \in {FullResponse(RrpTable), ServerError} }
    \cup
    { [fn |-> "net_liquidity", key |-> FALSE, walcl |-> BadRequest,
       tga |-> BadRequest, rrp |-> BadRequest] }

\* the "latest" dates of a direct year-ago lookup: the targets are day 1, 2
\* or 3, or lie before every point
LatestDates == { 3, 366, 367, 368 }

\* cleaned lists in ascending order of date, as _fetch_observations returns
\* them
YearAgoArgs ==
    { [fn |-> "year_ago", monitor |-> m, observations |-> Cleaned(o),
       latest_date |-> l] :
      m \in {"tga", "rrp", "fed_bs"}, o \in RawListsAscending,
      l \in LatestDates }

DataArgs == FetchArgs \cup StatusArgs \cup NetLiqArgs \cup YearAgoArgs

InitData ==
    /\ arg \in DataArgs
    /\ ret = None
    /\ pc = "call"
    /\ historyFile = <<>>
    /\ clock = 1
    /\ nl_yoy = None
    /\ repo_level = None
    /\ yc_spread = None
    /\ yc_info = None
    /\ cycle_info = NoCycle
    /\ today_snapshot = NoSnapshot
    /\ history = <<>>
    /\ trend = NoTrend
    /\ lines = <<>>
    /\ chat = <<>>
    /\ log = <<>>
    /\ result = "none"
    /\ exc = ""
    /\ fileAtStart = <<>>

\* one series fetch
CallFetch ==
    /\ pc = "call"
    /\ arg.fn = "fetch"
    /\ ret' = Fetch(arg.monitor, arg.key, arg.resp)
    /\ pc' = "called"
    /\ FnFrame

\* get_tga_status, get_rrp_status or get_fed_bs_status, then the text builder
\* on the dict it returned
CallStatus ==
    /\ pc = "call"
    /\ arg.fn = "status"
    /\ LET r == get_status(MonitorError(arg.monitor), arg.key, arg.resp)
       IN  ret' = [raised |-> r.raised, info |-> r.info,
                   text |-> IF r.raised = ""
                              THEN build_metric_text(arg.monitor, Val(r.info))
                              ELSE <<>>]
    /\ pc' = "called"
    /\ FnFrame

\* get_net_liquidity_status, then build_net_liquidity_text
CallNetLiquidity ==
    /\ pc = "call"
    /\ arg.fn = "net_liquidity"
    /\ LET r == get_net_liquidity_status(arg.key, arg.walcl, arg.tga, arg.rrp)
       IN  ret' = [raised |-> r.raised, info |-> r.info,
                   text |-> IF r.raised = ""
                              THEN build_metric_text("net_liquidity", Val(r.info))
                              ELSE <<>>]
    /\ pc' = "called"
    /\ FnFrame

\* _find_year_ago on a sorted list
CallFindYearAgo ==
    /\ pc = "call"
    /\ arg.fn = "year_ago"
    /\ LET r == _find_year_ago(arg.observations, arg.latest_date)
       IN  ret' = [raised |-> IF r = None THEN MonitorError(arg.monitor) ELSE "",
                   candidate |-> r]
    /\ pc' = "called"
    /\ FnFrame

NextData ==
    \/ CallFetch
    \/ CallStatus
    \/ CallNetLiquidity
    \/ CallFindYearAgo

SpecData == InitData /\ [][NextData]_vars

\* a calculator returned its dict
Computed == Called /\ arg.fn \in {"status", "net_liquidity"} /\ ret.raised = ""

\* C16: in each of the four calculators a reference value of 0 gives
\* yoy = None and the text shows "N/A" on the YoY line; a non-zero reference
\* gives yoy = (latest - reference) / reference * 100 (in hundredths: yoy *
\* reference = (latest - reference) * 10000).
C16_ZeroReference ==
    Computed
    => LET info == Val(ret.info)
       IN  /\ info.year_ago_value = 0
              => /\ info.yoy = None
                 /\ ret.text[4] = <<"YoY", "N/A">>
           /\ info.year_ago_value # 0
              => /\ info.yoy # None
                 /\ Val(info.yoy) * info.year_ago_value
                      = (info.latest_value - info.year_ago_value) * 10000
                 /\ ret.text[4] # <<"YoY", "N/A">>

C16_Witness ==
    /\ Computed
    /\ arg.fn = "status"
    /\ Val(ret.info).year_ago_value = 0
    /\ Val(ret.info).latest_value # 0
    /\ ret.text[4] = <<"YoY", "N/A">>

\* the 7-day block was built from a reference record
Trend7Built ==
    /\ Called
    /\ arg.fn = "trend"
    /\ arg.history # <<>>
    /\ ~ret.raised

\* C17: with a 7-day reference record, the liquidity line says improved when
\* today's YoY minus the reference's is above 0.1, worsened when it is below
\* -0.1 and flat otherwise; the repo line says up, down or flat by the sign
\* of the level difference; the yield line says narrowing above 0.02,
\* widening below -0.02 and flat otherwise.
C17_TrendDirections ==
    Trend7Built
    => LET ref == arg.history[1]
           d_nl == Val(arg.today.nl_yoy) - Val(ref.nl_yoy)
           d_repo == Val(arg.today.repo_level) - Val(ref.repo_level)
           d_yc == Val(arg.today.yc_spread) - Val(ref.yc_spread)
       IN  /\ ret.lines_7[2] =
                <<"trend7 nl_yoy",
                  CASE d_nl > 10 -> "improved"
                    [] d_nl < -10 -> "worsened"
                    [] OTHER -> "flat">>
           /\ ret.lines_7[3] =
                <<"trend7 repo",
                  CASE d_repo > 0 -> "up"
                    [] d_repo < 0 -> "down"
                    [] OTHER -> "flat">>
           /\ ret.lines_7[4] =
                <<"trend7 yield curve",
                  CASE d_yc > 2 -> "narrowing"
                    [] d_yc < -2 -> "widening"
                    [] OTHER -> "flat">>

C17_Witness ==
    /\ Trend7Built
    /\ arg.today.nl_yoy = Some(310)
    /\ arg.today.repo_level = Some(4)
    /\ arg.today.yc_spread = Some(-23)
    /\ ret.lines_7[2] = <<"trend7 nl_yoy", "flat">>
    /\ ret.lines_7[3] = <<"trend7 repo", "up">>
    /\ ret.lines_7[4] = <<"trend7 yield curve", "widening">>

\* the days for which a response holds a number
NumDates(resp) ==
    { resp.observations[i].date :
        i \in { j \in 1..Len(resp.observations) :
                  resp.observations[j].value.kind = "num" } }

\* the number a response holds for day d
NumAt(resp, d) ==
    LET i == CHOOSE j \in 1..Len(resp.observations) :
               /\ resp.observations[j].date = d
               /\ resp.observations[j].value.kind = "num"
    IN  resp.observations[i].value.num

\* the days for which all three responses of a net-liquidity call hold a number
C18_Common == NumDates(arg.walcl) \cap NumDates(arg.tga) \cap NumDates(arg.rrp)

C18_Net(d) == NumAt(arg.walcl, d) - NumAt(arg.tga, d) - NumAt(arg.rrp, d)

\* C18: net liquidity uses only the days all three series have: the latest
\* date is the greatest common day, the year-ago date the greatest common
\* day at or before the latest minus 365, each value is WALCL - TGA - RRP on
\* that day, and the call fails with NetLiqDataError when there is no common
\* day or none at or before the latest minus 365.
C18_CommonDates ==
    (Called /\ arg.fn = "net_liquidity")
    => IF C18_Common = {} THEN ret.raised = "NetLiqDataError"
       ELSE LET latest == SetMax(C18_Common)
                before == { d \in C18_Common : d <= latest - 365 }
            IN  IF before = {} THEN ret.raised = "NetLiqDataError"
                ELSE /\ ret.raised = ""
                     /\ Val(ret.info).latest_date = latest
                     /\ Val(ret.info).year_ago_date = SetMax(before)
                     /\ Val(ret.info).latest_value = C18_Net(latest)
                     /\ Val(ret.info).year_ago_value = C18_Net(SetMax(before))

C18_Witness ==
    /\ Computed
    /\ arg.fn = "net_liquidity"
    /\ 2 \in NumDates(arg.walcl) \ NumDates(arg.tga)
    /\ 3 \in C18_Common
    /\ Val(ret.info).latest_date = 367
    /\ Val(ret.info).year_ago_date = 1
    /\ Val(ret.info).year_ago_value = 100

\* C18, the failing side: common days exist but none is old enough
C18_WitnessNoYearAgo ==
    /\ Called
    /\ arg.fn = "net_liquidity"
    /\ C18_Common = {3, 367}
    /\ ret.raised = "NetLiqDataError"

\* a list of points in ascending order of date
AscendingByDate(obs) ==
    \A i \in 1..Len(obs) : \A j \in 1..Len(obs) :
        i < j => obs[i].date <= obs[j].date

\* C19: each of the five series fetches fails with its monitor's data error
\* when the key is absent, when the status is not 200 or when no number is
\* left after dropping null, "." and ""; otherwise it returns the numbers
\* that are left, in ascending order of date.
C19_FetchContract ==
    (Called /\ arg.fn = "fetch")
    => IF ~arg.key \/ arg.resp.status # 200 \/ NumDates(arg.resp) = {}
         THEN ret.raised = MonitorError(arg.monitor)
         ELSE /\ ret.raised = ""
              /\ { ret.obs[i].date : i \in 1..Len(ret.obs) } = NumDates(arg.resp)
              /\ \A i \in 1..Len(ret.obs) :
                   ret.obs[i].value = NumAt(arg.resp, ret.obs[i].date)
              /\ AscendingByDate(ret.obs)

\* token or chat id of a delivery call is missing
C20_NoCredentials ==
    arg.token \in {None, Some("")} \/ arg.chat_id \in {None, Some("")}

\* the file a photo or document call is to attach does not exist
C20_NoFile == arg.kind \in {"photo", "document"} /\ ~arg.exists

\* C20: each of the three delivery calls raises TelegramError when token or
\* chat id is missing, when the file to attach does not exist or when the
\* status is not 200; it makes at most one POST, and none when the
\* credentials or the file are missing.
C20_DeliveryCall ==
    (Called /\ arg.fn = "send")
    => /\ (C20_NoCredentials \/ C20_NoFile \/ arg.status # 200)
          => ret.raised = "TelegramError"
       /\ Len(ret.posts) <= 1
       /\ (C20_NoCredentials \/ C20_NoFile) => ret.posts = <<>>

C20_Witness ==
    /\ Called
    /\ arg.fn = "send"
    /\ arg.kind = "photo"
    /\ ~C20_NoCredentials
    /\ ~arg.exists
    /\ arg.status = 200
    /\ ret.raised = "TelegramError"
    /\ ret.posts = <<>>

\* C20, the other failing side: the one POST is made and answered with 400
C20_WitnessStatus ==
    /\ Called
    /\ arg.fn = "send"
    /\ arg.kind = "message"
    /\ arg.status = 400
    /\ ret.raised = "TelegramError"
    /\ Len(ret.posts) = 1

\* the points of a direct year-ago lookup dated at or before latest - 365
C21_Qualifying ==
    { i \in 1..Len(arg.observations) :
        arg.observations[i].date <= arg.latest_date - 365 }

\* C21: on a list sorted ascending by date _find_year_ago returns the point
\* with the greatest date at or before latest - 365 days, and raises the
\* monitor's data error when no point qualifies.
C21_YearAgoIsGreatest ==
    (Called /\ arg.fn = "year_ago")
    => IF C21_Qualifying = {}
         THEN /\ ret.raised = MonitorError(arg.monitor)
              /\ ret.candidate = None
         ELSE /\ ret.raised = ""
              /\ \E i \in C21_Qualifying :
                   /\ Val(ret.candidate) = arg.observations[i]
                   /\ \A j \in C21_Qualifying :
                        arg.observations[j].date <= arg.observations[i].date

C21_Witness ==
    /\ Called
    /\ arg.fn = "year_ago"
    /\ arg.latest_date = 367
    /\ Len(arg.observations) = 4
    /\ ret.raised = ""
    /\ Val(ret.candidate).date = 2

\* C21, the failing side: points exist but none is old enough
C21_WitnessNone ==
    /\ Called
    /\ arg.fn = "year_ago"
    /\ arg.latest_date = 366
    /\ arg.observations # <<>>
    /\ arg.observations[1].date = 2
    /\ ret.raised = "RRPDataError"

\* the records of the looked-up history whose date is present and parses
C22_Dated ==
    { i \in 1..Len(arg.history) :
        arg.history[i].date # None /\ Len(arg.history[i].date) = 1 }

\* the day distance of record i to today - n
C22_Dist(i, n) == AbsInt(arg.history[i].date[1] - (arg.today - n))

\* ref is what the claim says of the lookup over n days
C22_Closest(ref, n) ==
    IF C22_Dated = {} THEN ref = None
    ELSE /\ ref # None
         /\ \E i \in C22_Dated :
              /\ Val(ref) = arg.history[i]
              /\ \A j \in C22_Dated : C22_Dist(i, n) <= C22_Dist(j, n)
              /\ \A j \in C22_Dated : j < i => C22_Dist(i, n) < C22_Dist(j, n)

\* C22: find_reference_entry returns the record whose date is closest in
\* days to today - n, the first in list order among equally close ones;
\* records with a missing or unparseable date are skipped; the result is
\* None exactly when no record has a parseable date.
C22_ClosestRecord ==
    (Called /\ arg.fn = "refs")
    => /\ C22_Closest(ret.ref_7, 7)
       /\ C22_Closest(ret.ref_30, 30)

C22_Witness ==
    /\ Called
    /\ arg.fn = "refs"
    /\ arg.today = 40
    /\ Len(arg.history) = 3
    /\ arg.history[1].date = BadDateStr
    /\ arg.history[2].date = strftime(34)
    /\ arg.history[3].date = strftime(32)
    /\ ret.ref_7 = Some(arg.history[2])

\* C28: the 7-day reference of build_trend_sections is None exactly when the
\* 30-day reference is None, and both exist as soon as one record of the
\* history has a parseable date, however far from the targets; so the
\* cycle-shift line never falls back to a 7-day reference.
C28_ReferencesTogether ==
    (Called /\ arg.fn = "refs")
    => /\ ret.ref_7 = None <=> ret.ref_30 = None
       /\ C22_Dated # {} => (ret.ref_7 # None /\ ret.ref_30 # None)
       /\ C22_Dated = {} => (ret.ref_7 = None /\ ret.ref_30 = None)

\* the only dated record is today's own: it is both references
C28_Witness ==
    /\ Called
    /\ arg.fn = "refs"
    /\ arg.today = 40
    /\ Len(arg.history) = 2
    /\ arg.history[1].date = None
    /\ arg.history[2].date = strftime(40)
    /\ ret.ref_7 = Some(arg.history[2])
    /\ ret.ref_30 = Some(arg.history[2])

\* the 9 stages from the lowest to the highest
C23_Order ==
    << "Capitulation Bear", "Early/Mid Bear", "Stress Transition",
       "Transition", "Late Transition", "Early Bull", "Mid Bull",
       "Volatile Bull", "Late Bull" >>

C23_Ranked(stage) == \E i \in 1..9 : C23_Order[i] = stage

C23_Rank(stage) == CHOOSE i \in 1..9 : C23_Order[i] = stage

\* the records of the history of a trend call whose date parses
C23_Dated ==
    { i \in 1..Len(arg.history) :
        arg.history[i].date # None /\ Len(arg.history[i].date) = 1 }

C23_Dist30(i) == AbsInt(arg.history[i].date[1] - (arg.today.date[1] - 30))

\* the 30-day reference: the first of the closest dated records
C23_Prev ==
    arg.history[CHOOSE i \in C23_Dated :
                  \A j \in C23_Dated :
                      \/ C23_Dist30(i) < C23_Dist30(j)
                      \/ (C23_Dist30(i) = C23_Dist30(j) /\ i <= j)]

C23_Arrow(prev_stage, curr_stage) ==
    IF ~C23_Ranked(prev_stage) \/ ~C23_Ranked(curr_stage) THEN "neutral"
    ELSE IF C23_Rank(curr_stage) > C23_Rank(prev_stage) THEN "up"
    ELSE IF C23_Rank(curr_stage) < C23_Rank(prev_stage) THEN "down"
    ELSE "level"

\* C23: the cycle-shift line compares today's stage with the stage of the
\* 30-day reference by rank in the 9-stage order (up, down, level, or
\* neutral when a stage has no rank); get_stage_rank gives None for every
\* string outside the 9 stages; with no reference record the line says the
\* history is insufficient.
C23_CycleShift ==
    (Called /\ arg.fn \in {"trend", "cycle"})
    => IF C23_Dated = {}
         THEN ret.cycle_shift_line = <<"cycle shift", "insufficient history">>
         ELSE /\ ret.cycle_shift_line =
                   <<"cycle shift", C23_Prev.label,
                     C23_Arrow(C23_Prev.stage, arg.today.stage),
                     arg.today.label>>
              /\ get_stage_rank(C23_Prev.stage) = None
                   <=> ~C23_Ranked(C23_Prev.stage)

\* C23 restricted to the calls in which the 7-day block does not raise:
\* there the line is as the claim says
C23_CycleShiftWhenBuilt ==
    (Called /\ arg.fn \in {"trend", "cycle"} /\ ~ret.raised) => C23_CycleShift

C23_Witness ==
    /\ Called
    /\ arg.fn = "cycle"
    /\ ~ret.raised
    /\ Len(arg.history) = 2
    /\ arg.history[1] = HistRecord(strftime(33), "Late Bull")
    /\ arg.history[2] = HistRecord(strftime(10), "Mid Bull")
    /\ arg.today.stage = "Early Bull"
    /\ ret.cycle_shift_line[3] = "down"

\* C23, the neutral arrow: the reference carries no stage
C23_WitnessNeutral ==
    /\ Called
    /\ arg.fn = "cycle"
    /\ ~ret.raised
    /\ Len(arg.history) = 1
    /\ arg.history[1].stage = ""
    /\ ret.cycle_shift_line[3] = "neutral"

\* text holds the line
HasLine(text, line) == \E i \in 1..Len(text) : text[i] = line

\* C24: the full report holds the policy-pivot warning exactly when repo
\* level >= 3 and liquidity YoY > 0 (both present), the QT-near-end warning
\* exactly when repo level >= 4, and the alert header exactly when it holds
\* one of the two; the short summary holds neither warning.
C24_Warnings ==
    (Called /\ arg.fn = "texts")
    => LET pivot == /\ arg.repo # None
                    /\ arg.nl # None
                    /\ Val(arg.repo) >= 3
                    /\ Val(arg.nl) > 0
           qt == arg.repo # None /\ Val(arg.repo) >= 4
       IN  /\ HasLine(ret.full, <<"warning", "policy pivot">>) <=> pivot
           /\ HasLine(ret.full, <<"warning", "QT near end">>) <=> qt
           /\ HasLine(ret.full, <<"alert header">>) <=> (pivot \/ qt)
           /\ \A i \in 1..Len(ret.brief) :
                ret.brief[i][1] \notin {"warning", "alert header"}

\* level 3 with a positive YoY: the pivot warning alone
C24_Witness ==
    /\ Called
    /\ arg.fn = "texts"
    /\ arg.repo = Some(3)
    /\ arg.nl = Some(1)
    /\ HasLine(ret.full, <<"alert header">>)
    /\ HasLine(ret.full, <<"warning", "policy pivot">>)
    /\ ~HasLine(ret.full, <<"warning", "QT near end">>)

\* C25: in every step of a run, the short summary is the first message and
\* is sent once the fetches and the assembly are over, the full report is
\* the second, the chart attempt comes third, and the history update comes
\* after the chart attempt; the history file changes only in the update
\* step, which a run takes at most once and only with both texts delivered;
\* a run that delivered both texts ends with that update; a run that a text
\* delivery ended leaves the file as it was at its start.
C25_StepOrder ==
    [][ /\ pc' = "send_brief" => (pc = "cds" /\ chat' = <<>>)
        /\ (chat' # chat /\ pc # "done" /\ pc # "idle")
           => \/ /\ pc = "send_brief"
                 /\ chat = <<>>
                 /\ chat' = << Message(brief_text) >>
              \/ /\ pc = "send_full"
                 /\ chat = << Message(brief_text) >>
                 /\ chat' = << Message(brief_text), Message(FullReport) >>
              \/ /\ pc = "chart"
                 /\ chat = << Message(brief_text), Message(FullReport) >>
                 /\ chat' = Append(chat, Photo)
        /\ pc' = "chart" => (pc = "send_full" /\ BriefSent' /\ FullSent')
        /\ pc' = "update_history" => (pc = "chart" /\ BriefSent /\ FullSent)
        /\ historyFile' # historyFile
           => (pc = "update_history" /\ pc' = "done" /\ BriefSent /\ FullSent)
        /\ pc = "update_history"
           => /\ pc' = "done"
              /\ historyFile' = save_history(UpdatedHistory(history, today_snapshot))
              /\ TodayPersisted'
        /\ (pc' = "done" /\ pc # "done" /\ BriefSent' /\ FullSent')
           => pc = "update_history"
        /\ (pc' = "done" /\ exc' = "TelegramError")
           => historyFile' = fileAtStart'
      ]_vars

\* a run delivered both texts and the photo and then wrote a new record
C25_Witness ==
    /\ RunEnded
    /\ chat = << Message(brief_text), Message(FullReport), Photo >>
    /\ fileAtStart # <<>>
    /\ historyFile # fileAtStart
    /\ TodayPersisted

\* the finished run had its three metrics present and a stored history, and
\* no fetch, scrape or delivery call of it failed
C26_LaterRun ==
    /\ RunEnded
    /\ SnapshotBuilt
    /\ fileAtStart # <<>>
    /\ nl_yoy # None
    /\ repo_level # None
    /\ yc_spread # None
    /\ exc \notin (CaughtErrors \cup CDSEscapeErrors)

\* C26: starting from an empty history, a record stored by an earlier run
\* never makes a later run fail: a later run with its three metrics present
\* builds both trend blocks and delivers both texts, even when a stored
\* record holds an absent metric.
C26_StoredRecordsHarmless ==
    C26_LaterRun
    => /\ exc = ""
       /\ trend.lines_7 # <<>>
       /\ trend.lines_30 # <<>>
       /\ BriefSent
       /\ FullSent

\* C27: for every triple of present inputs the three sub-scores lie in
\* {30,40,55,60,65,80}, {20,30,45,65,80} and {50,55,65,75}, the score is
\* their rounded average unchanged by the clamp and lies in 33..78, and the
\* risk line never shows the extreme band.
C27_ScoreRange ==
    (Called /\ arg.fn = "classify" /\ AllPresent)
    => LET a == risk_nl(Val(arg.nl))
           b == risk_repo(Val(arg.repo))
           c == risk_yc(Val(arg.yc))
           score == Val(ret.score)
       IN  /\ a \in {30, 40, 55, 60, 65, 80}
           /\ b \in {20, 30, 45, 65, 80}
           /\ c \in {50, 55, 65, 75}
           /\ 3 * score - (a + b + c) \in {-1, 0, 1}
           /\ score \in 33..78
           /\ ret.risk_line[3] # "extreme risk"

\* the highest score: 80, 80 and 75 average to 78, shown as elevated
C27_Witness ==
    /\ Called
    /\ arg.fn = "classify"
    /\ arg.nl = Some(-1500)
    /\ arg.repo = Some(4)
    /\ arg.yc = Some(50)
    /\ ret.score = Some(78)
    /\ ret.risk_line = <<"risk", "78", "elevated risk">>

\* the lowest score: 30, 20 and 50 average to 33
C27_WitnessLowest ==
    /\ Called
    /\ arg.fn = "classify"
    /\ AllPresent
    /\ ret.score = Some(33)
    /\ ret.risk_line[3] = "low risk"

====
